---- MODULE Spec2Model ----
(***************************************************************************)
(* Announce-translate-bot: the multi-language announcement fan-out         *)
(* (cogs/announcements.py, Announcements.announce), the admin commands     *)
(* that mutate the language -> channel map (DiscordAnnouncer/cogs/         *)
(* announcements.py with DiscordAnnouncer/config.py), and the automatic    *)
(* translation of the messages of watched channels (cogs/translation.py,   *)
(* Translation.on_message).                                                *)
(*                                                                         *)
(* Text is modelled as a sequence of one-character strings, so that        *)
(* str.lower, str.replace, str.strip and the `in` test are computed as     *)
(* Python computes them.  A fixed literal of the code that no claim looks  *)
(* inside (the announcement header, the "Original (English)" label) is one *)
(* element of such a sequence.                                             *)
(*                                                                         *)
(* announce is a coroutine: every `await` is a point where it is           *)
(* suspended.  pc names the await the call is suspended on; one action     *)
(* per await models the awaited call returning or raising, followed by the *)
(* synchronous code up to the next await.  pc = "loop" is the head of the  *)
(* for statement, reached synchronously (no other handler runs there).     *)
(***************************************************************************)
EXTENDS Integers, Sequences, FiniteSets, TLC

\* ------------------------------------------------------------------ bounds
MaxChannel == 3     \* channel ids are 1..MaxChannel
MaxSlots == 4       \* entries a dict's entry table holds before CPython resizes it
MaxAdmin == 1       \* admin commands per behaviour
MaxCalls == 1       \* announce calls per behaviour

ChannelIds == 1..MaxChannel
Guilds == {"g1", "g2"}
LangCodes == {"en", "pt", "ko"}

\* ------------------------------------------------------------------ text
UpperCase == <<"A", "B", "C", "D", "E", "F", "G", "H", "I", "J", "K", "L", "M",
               "N", "O", "P", "Q", "R", "S", "T", "U", "V", "W", "X", "Y", "Z">>
LowerCase == <<"a", "b", "c", "d", "e", "f", "g", "h", "i", "j", "k", "l", "m",
               "n", "o", "p", "q", "r", "s", "t", "u", "v", "w", "x", "y", "z">>
Lowered ==
  [c \in {UpperCase[i] : i \in DOMAIN UpperCase} |->
     LowerCase[CHOOSE i \in DOMAIN UpperCase : UpperCase[i] = c]]

\* str.lower()
Lower(s) == [i \in 1..Len(s) |-> IF s[i] \in DOMAIN Lowered THEN Lowered[s[i]] ELSE s[i]]

\* `sub in s`
Contains(s, sub) ==
  \E i \in 1..(Len(s) - Len(sub) + 1) : SubSeq(s, i, i + Len(sub) - 1) = sub

\* s.replace(old, ""): non-overlapping occurrences, left to right
RECURSIVE Remove(_, _)
Remove(s, old) ==
  IF Len(s) < Len(old) THEN s
  ELSE IF SubSeq(s, 1, Len(old)) = old
       THEN Remove(SubSeq(s, Len(old) + 1, Len(s)), old)
       ELSE <<s[1]>> \o Remove(Tail(s), old)

WhiteSpace == {" ", "\n", "\t"}

\* s.strip()
Strip(s) ==
  LET keep == {i \in 1..Len(s) : s[i] \notin WhiteSpace}
  IN  IF keep = {} THEN <<>>
      ELSE LET lo == CHOOSE i \in keep : \A j \in keep : i <= j
               hi == CHOOSE i \in keep : \A j \in keep : j <= i
           IN  SubSeq(s, lo, hi)

FlagToken == <<"-", "-", "e", "v", "e", "r", "y", "o", "n", "e">>
AtToken == <<"@", "e", "v", "e", "r", "y", "o", "n", "e">>

\* The announcement texts an operator submits.
Messages ==
  { <<"h", "i">>,
    <<"h", "i", " ">> \o FlagToken,
    AtToken \o <<" ", "h", "i">>,
    <<"@", "E", "v", "e", "r", "y", "o", "n", "e", " ", "h", "i">>,
    <<"-", "-", "e", "v", "e", "r", "y">> \o AtToken \o <<"o", "n", "e">> }

\* ------------------------------------------------------------------ dict
(* A Python dict as CPython lays it out: the entry table in insertion      *)
(* order, a deleted entry leaving a hole (Dummy) that is reused only by a  *)
(* resize.  The model keeps every table under MaxSlots entries, below the  *)
(* first resize of a small dict.                                           *)
Dummy == [key |-> "<dummy>", value |-> 0]
NoChannel == 0

\* len(d)
DictUsed(d) == Cardinality({i \in 1..Len(d) : d[i] # Dummy})

\* k in d
DictHas(d, k) == \E i \in 1..Len(d) : d[i] # Dummy /\ d[i].key = k

\* d.get(k)
DictGet(d, k) ==
  IF DictHas(d, k)
  THEN LET i == CHOOSE j \in 1..Len(d) : d[j] # Dummy /\ d[j].key = k IN d[i].value
  ELSE NoChannel

\* d[k] = v
DictSet(d, k, v) ==
  IF DictHas(d, k)
  THEN [i \in 1..Len(d) |-> IF d[i] # Dummy /\ d[i].key = k THEN [key |-> k, value |-> v] ELSE d[i]]
  ELSE Append(d, [key |-> k, value |-> v])

\* del d[k]
DictDel(d, k) ==
  [i \in 1..Len(d) |-> IF d[i] # Dummy /\ d[i].key = k THEN Dummy ELSE d[i]]

\* list(d.items())
DictItems(d) == SelectSeq(d, LAMBDA e : e # Dummy)

\* iter(d.items()): position in the entry table, the size seen at creation,
\* the number of items still expected
NoIter == [di_pos |-> 0, di_used |-> 0, len |-> 0]
DictIter(d) == [di_pos |-> 0, di_used |-> DictUsed(d), len |-> DictUsed(d)]

\* next(it): an item, StopIteration, or RuntimeError (the dict changed size,
\* or an entry turns up after the expected number was handed out)
DictNext(d, it) ==
  LET live == {j \in 1..Len(d) : j > it.di_pos /\ d[j] # Dummy}
  IN  IF it.di_used # DictUsed(d) THEN [kind |-> "error", it |-> [it EXCEPT !.di_used = -1]]
      ELSE IF live = {} THEN [kind |-> "stop", it |-> it]
      ELSE IF it.len = 0 THEN [kind |-> "error", it |-> [it EXCEPT !.di_used = -1]]
      ELSE LET j == CHOOSE i \in live : \A k \in live : i <= k
           IN  [kind |-> "item", key |-> d[j].key, value |-> d[j].value,
                it |-> [it EXCEPT !.di_pos = j, !.len = it.len - 1]]

\* ------------------------------------------------------------------ fan-out helpers
DefaultLanguages == [c \in LangCodes |->
  CASE c = "en" -> "English" [] c = "pt" -> "Portuguese" [] c = "ko" -> "Korean"]

\* available_announcement_languages.get(lang_code, lang_code)
LangName(avail, code) == IF code \in DOMAIN avail THEN avail[code] ELSE code

\* a lookup that enters the missing code in the table (setdefault)
AvailableAfterSetdefault(avail, code) ==
  [k \in DOMAIN avail \cup {code} |-> IF k \in DOMAIN avail THEN avail[k] ELSE code]

\* the table after available_announcement_languages.get(lang_code, lang_code)
AvailableAfterLookup(avail, code) == avail

NoDestinationsNever(language_channels) == FALSE

\* `if not language_channels`
NoDestinations(language_channels) == DictUsed(language_channels) = 0

\* mention_everyone and clean_message from the submitted text
StripTrigger(msg) ==
  IF Contains(Lower(msg), FlagToken) \/ Contains(Lower(msg), AtToken)
  THEN [mention_everyone |-> TRUE,
        clean_message |-> Strip(Remove(Remove(msg, FlagToken), AtToken))]
  ELSE [mention_everyone |-> FALSE, clean_message |-> msg]

(* The translation provider (GoogleTranslator.translate), an external      *)
(* service: its answer is the text rendered in the target language, here   *)
(* the text marked with the language code.                                 *)
GoogleTranslate(text, target) == <<target>> \o text

translate_text_raises(text, target, providerOk) ==
  [raised |-> ~providerOk, value |-> GoogleTranslate(text, target)]

\* translate_text: the provider's answer, or the text unchanged when the
\* provider raised; raised tells whether the helper itself raises
translate_text(text, target, providerOk) ==
  [raised |-> FALSE,
   value |-> IF providerOk THEN GoogleTranslate(text, target) ELSE text]

IsCanonicalNever(lang) == FALSE

\* `if lang_code == 'en'` takes the text verbatim
IsCanonical(lang) == lang = "en"

HeaderLine == <<"**Announcement**\n">>
OriginalLabel == <<"\n\n*Original (English):* ">>
EveryoneMarker == AtToken \o <<"\n">>

\* a payload with the reference line whatever the language
ComposeWithReference(translated, clean, lang) ==
  HeaderLine \o translated \o OriginalLabel \o clean

\* full_message
Compose(translated, clean, lang) ==
  HeaderLine \o translated \o (IF lang # "en" THEN OriginalLabel \o clean ELSE <<>>)

\* a send that never puts the marker in front
SendContentPlain(mention, full) == full

\* the argument of target_channel.send
SendContent(mention, full) == IF mention THEN EveryoneMarker \o full ELSE full

RecordFailedFirst(failed, name, why) == <<[name |-> name, why |-> why]>> \o failed

\* failed_channels.append(f"{lang_name} ({why})")
RecordFailed(failed, name, why) == Append(failed, [name |-> name, why |-> why])

\* an embed cog that keeps no record of a destination left out
RecordFailedEmbedDropped(failed, name, why) == failed

\* failed_channels.append(f"{lang_name} ({why})") of the embed cog
RecordFailedEmbed(failed, name, why) == Append(failed, [name |-> name, why |-> why])

\* the failed list after the append of the cog that runs
RecordFailedBy(c, failed, name, why) ==
  IF c = "embed" THEN RecordFailedEmbed(failed, name, why)
  ELSE RecordFailed(failed, name, why)

\* the embed of the embed cog: one field for 'en', the translation and the
\* original for any other language
EmbedFields(translated, clean, lang, lang_name) ==
  IF lang = "en"
  THEN <<[name |-> "Message", of |-> "", value |-> translated]>>
  ELSE <<[name |-> "Message", of |-> lang_name, value |-> translated],
         [name |-> "Original (English)", of |-> "", value |-> clean]>>

\* what the cog that runs puts together for a destination
FullMessage(c, translated, clean, lang, lang_name) ==
  IF c = "embed" THEN EmbedFields(translated, clean, lang, lang_name)
  ELSE Compose(translated, clean, lang)

\* the arguments of target_channel.send of the cog that runs
SendArgument(c, mention, full) ==
  IF c = "embed"
  THEN [content |-> IF mention THEN AtToken ELSE <<>>, embed |-> full]
  ELSE SendContent(mention, full)

AfterResolveUnchecked(found, lang) == IF IsCanonical(lang) THEN "send" ELSE "typing"

\* where the loop body goes once the channel id is looked up
AfterResolve(found, lang) ==
  IF ~found THEN "loop" ELSE IF IsCanonical(lang) THEN "send" ELSE "typing"

AfterDestinationErrorAbort == "reply_failed"

\* the inner except clause ends the iteration, the for statement goes on
AfterDestinationError == "loop"

\* a failed send that also forgets the sends counted before it
CountSentUndo(n, ok) == IF ok THEN n + 1 ELSE 0

CountSentAlways(n, ok) == n + 1

\* sent_count += 1 follows a send that returned
CountSent(n, ok) == IF ok THEN n + 1 ELSE n

\* ------------------------------------------------------------------ on_message helpers
MaxMessages == 2

\* BotConfig.command_prefix
CommandPrefix == <<"!">>

\* s.startswith(p)
StartsWith(s, p) == Len(s) >= Len(p) /\ SubSeq(s, 1, Len(p)) = p

\* the characters the pattern \w matches
WordChars ==
  {UpperCase[i] : i \in DOMAIN UpperCase} \cup {LowerCase[i] : i \in DOMAIN LowerCase}
    \cup {"0", "1", "2", "3", "4", "5", "6", "7", "8", "9", "_"}

\* re.findall(r'\b\w+\b', s): scanning from the left, each maximal run of
\* word characters
RECURSIVE Words(_)
Words(s) ==
  IF s = <<>> THEN <<>>
  ELSE IF s[1] \notin WordChars THEN Words(Tail(s))
  ELSE LET n == CHOOSE k \in 1..Len(s) :
                  /\ \A i \in 1..k : s[i] \in WordChars
                  /\ k = Len(s) \/ s[k + 1] \notin WordChars
       IN  <<SubSeq(s, 1, n)>> \o Words(SubSeq(s, n + 1, Len(s)))

\* a gate that lets the messages of bots through
GateOfBots(bot, content, channel, watched) ==
  IF StartsWith(content, CommandPrefix) THEN "command"
  ELSE IF Strip(content) = <<>> THEN "empty"
  ELSE IF ~(\E i \in DOMAIN watched : watched[i] = channel) THEN "unwatched"
  ELSE "in"

\* a gate that lets commands through
GateOfCommands(bot, content, channel, watched) ==
  IF bot THEN "bot"
  ELSE IF Strip(content) = <<>> THEN "empty"
  ELSE IF ~(\E i \in DOMAIN watched : watched[i] = channel) THEN "unwatched"
  ELSE "in"

\* a gate that forgets the watched-channel test
GateOfAnyChannel(bot, content, channel, watched) ==
  IF bot THEN "bot"
  ELSE IF StartsWith(content, CommandPrefix) THEN "command"
  ELSE IF Strip(content) = <<>> THEN "empty"
  ELSE "in"

\* the three early returns of on_message, in their order
GateOf(bot, content, channel, watched) ==
  IF bot THEN "bot"
  ELSE IF StartsWith(content, CommandPrefix) THEN "command"
  ELSE IF Strip(content) = <<>> THEN "empty"
  ELSE IF ~(\E i \in DOMAIN watched : watched[i] = channel) THEN "unwatched"
  ELSE "in"

\* the value detected_lang takes when single_detection raises
DetectFallback == "auto"

\* a pipeline that translates English too
AlreadyEnglishNever(detected_lang) == FALSE

\* `if detected_lang == 'en': return`
AlreadyEnglish(detected_lang) == detected_lang = "en"

\* a comparison that stops at the cleaned strings
SignificantlyDifferentStrings(content, translated) ==
  LET original_clean == Strip(Lower(content))
      translated_clean == Strip(Lower(translated))
  IN  translated_clean # original_clean /\ Len(translated_clean) > 0

\* the two nested conditions on original_clean and translated_clean
SignificantlyDifferent(content, translated) ==
  LET original_clean == Strip(Lower(content))
      translated_clean == Strip(Lower(translated))
  IN  /\ translated_clean # original_clean /\ Len(translated_clean) > 0
      /\ Words(original_clean) # Words(translated_clean)

\* a notice that shows the fallback code itself
LangDisplayRaw(detected_lang) == detected_lang

\* lang_display
LangDisplay(detected_lang) ==
  IF detected_lang # DetectFallback THEN detected_lang ELSE "Unknown"

\* the length a field value is cut at
DisplayLen == 500

\* field values shown whole whatever their length
TruncateNever(text) == text

\* text[:500] + ("..." if len(text) > 500 else "")
Truncate(text) ==
  IF Len(text) > DisplayLen THEN SubSeq(text, 1, DisplayLen) \o <<"...">> ELSE text

\* the embed of a translation notice
Notice(detected_lang, content, translated) ==
  [kind |-> "notice", lang |-> LangDisplay(detected_lang),
   original |-> Truncate(content), translation |-> Truncate(translated)]

\* the content of the diagnostic message
DiagnosticText == <<"Auto-translation failed: ">>

\* a handler that reports every notice, sent or not
AfterNoticeReported(ok) == "diagnostic"

\* after message.channel.send(embed=embed): the coroutine ends, or the
\* outer handler takes the exception
AfterNotice(ok) == IF ok THEN "done" ELSE "diagnostic"

\* the "Auto-translation failed" text
Diagnostic == [kind |-> "diagnostic", lang |-> "", original |-> <<>>, translation |-> <<>>]

\* a handler without the bare except around the diagnostic
DiagnosticEscapesOnError(ok) == ~ok

\* whether an exception leaves on_message after the diagnostic send
DiagnosticEscapes(ok) == FALSE

\* an invocation that has not been dispatched
NoFrame ==
  [pc |-> "none", bot |-> FALSE, content |-> <<>>, channel |-> NoChannel, gate |-> "",
   detected_lang |-> "", detectFailed |-> FALSE, detectCalls |-> <<>>,
   translateCalls |-> <<>>, translated |-> <<>>, translateFailed |-> FALSE,
   sends |-> <<>>, raised |-> FALSE,
   echoOf |-> 0]

\* ------------------------------------------------------------------ state
VARIABLES
  announcement_language_channels,   \* config: guild -> dict language code -> channel id
  available_announcement_languages, \* config: language code -> language name
  pc,                 \* the await the announce call is suspended on
  ctx_guild,          \* ctx.guild.id of the call
  message,            \* the text submitted
  mention_everyone, clean_message, sent_count, failed_channels,
  it,                 \* the iterator of `for ... in language_channels.items()`
  lang_code, channel_id, translated_message, full_message,
  result,             \* how the call ended: "returned" or "raised"
  startMap,           \* history: the guild's items when the call started
  resolved,           \* history: bot.get_channel calls
  translatorCalls,    \* history: translate_text calls
  sends,              \* history: target_channel.send calls
  outcomes,           \* history: one record per destination decided
  replies,            \* history: ctx.send calls
  adminCount, calls,
  prevRun,            \* history: the call that returned last
  auto_translate_channels, \* config: the channel ids watched by on_message
  inv,                \* the on_message invocations, by order of arrival
  arrived,            \* messages dispatched so far
  channelLog,         \* history: message.channel.send calls, in the order made
  adminReplies,       \* history: the ctx.send calls of the latest admin command
  toggleCalls,        \* the auto_translate commands, by order of arrival
  cog                 \* the Announcements cog that handles the call: "text" or "embed"

cfgVars == <<announcement_language_channels, available_announcement_languages>>
frameVars == <<ctx_guild, message, mention_everyone, clean_message, sent_count,
               failed_channels, it, lang_code, channel_id, translated_message,
               full_message, result>>
logVars == <<startMap, resolved, translatorCalls, sends, outcomes, replies>>
filterVars == <<auto_translate_channels, inv, arrived, channelLog>>
fanoutVars == <<cfgVars, pc, frameVars, logVars, adminCount, calls, prevRun>>
opsVars == <<adminReplies, toggleCalls, cog>>
vars == <<cfgVars, pc, frameVars, logVars, adminCount, calls, prevRun, filterVars, opsVars>>

\* no call has returned yet
NoRun == [calls |-> 0]

\* A channel map as the configuration file holds it: distinct language
\* codes in any order, the i-th entry on channel i.
InitMaps ==
  LET orders == UNION {[1..n -> LangCodes] : n \in 0..Cardinality(LangCodes)}
  IN  { [i \in 1..Len(s) |-> [key |-> s[i], value |-> i]] :
          s \in {t \in orders : \A i, j \in 1..Len(t) : i # j => t[i] # t[j]} }

\* The language table of the configuration file: the default one, or one
\* that no longer lists a language a channel is still mapped to.
InitAvailable == {DefaultLanguages, [c \in {"en", "pt"} |-> DefaultLanguages[c]]}

FrameInit ==
  /\ ctx_guild = "g1" /\ message = <<>>
  /\ mention_everyone = FALSE /\ clean_message = <<>>
  /\ sent_count = 0 /\ failed_channels = <<>> /\ it = NoIter
  /\ lang_code = "" /\ channel_id = NoChannel
  /\ translated_message = <<>> /\ full_message = <<>> /\ result = "none"

LogInit ==
  /\ startMap = <<>> /\ resolved = <<>> /\ translatorCalls = <<>>
  /\ sends = <<>> /\ outcomes = <<>> /\ replies = <<>>

\* no message has been dispatched to on_message
FilterIdle ==
  /\ inv = [i \in 1..MaxMessages |-> NoFrame]
  /\ arrived = 0 /\ channelLog = <<>>

\* no admin command and no auto_translate command has been received
OpsIdle == adminReplies = <<>> /\ toggleCalls = <<>> /\ cog = "text"

Init ==
  /\ \E m \in InitMaps :
       announcement_language_channels = [g \in Guilds |-> IF g = "g1" THEN m ELSE <<>>]
  /\ available_announcement_languages \in InitAvailable
  /\ pc = "idle"
  /\ FrameInit /\ LogInit
  /\ adminCount = 0 /\ calls = 0
  /\ prevRun = NoRun
  /\ auto_translate_channels = <<>> /\ FilterIdle /\ OpsIdle

\* ------------------------------------------------------------------ announce
Outcome(status, detail) ==
  [lang |-> lang_code, chan |-> channel_id, status |-> status, detail |-> detail]

\* the inner `except Exception`, lines 81-84
DestinationError(cause) ==
  /\ failed_channels' = RecordFailedBy(cog, failed_channels,
                           LangName(available_announcement_languages, lang_code), "error")
  /\ outcomes' = Append(outcomes, Outcome("SendFailed", cause))
  /\ pc' = AfterDestinationError

\* !announce <msg> in guild g handled by cog c, up to the first ctx.send
StartCallIn(c, g, msg) ==
  /\ pc = "idle"
  /\ cog' = c
  /\ calls' = calls + 1
  /\ ctx_guild' = g /\ message' = msg
  /\ startMap' = DictItems(announcement_language_channels[g])
  /\ IF NoDestinations(announcement_language_channels[g])
     THEN /\ pc' = "reply_nodest"
          /\ UNCHANGED <<mention_everyone, clean_message>>
     ELSE /\ mention_everyone' = StripTrigger(msg).mention_everyone
          /\ clean_message' = StripTrigger(msg).clean_message
          /\ pc' = "reply_progress"
  /\ UNCHANGED <<cfgVars, sent_count, failed_channels, it, lang_code, channel_id,
                 translated_message, full_message, result, resolved, translatorCalls,
                 sends, outcomes, replies, adminCount>>
  /\ UNCHANGED <<prevRun, filterVars, adminReplies, toggleCalls>>

\* the call handled by the plain-text cog
StartCall(g, msg) == StartCallIn("text", g, msg)

Announce(g, msg) == calls < MaxCalls /\ StartCall(g, msg)

\* what announce_everyone puts after the text: f"{message} @everyone"
EveryoneSuffix == <<" ">> \o AtToken

\* !announce_everyone <msg>: announce with the suffixed text
announce_everyone(g, msg) == calls < MaxCalls /\ StartCall(g, msg \o EveryoneSuffix)

\* ctx.send("No announcement language channels configured ...") returns or raises
ReplyNoDestReturns(ok) ==
  /\ pc = "reply_nodest"
  /\ replies' = Append(replies, [kind |-> "nodest", ok |-> ok])
  /\ IF ok THEN pc' = "done" /\ result' = "returned"
           ELSE pc' = "reply_failed" /\ UNCHANGED result
  /\ UNCHANGED <<cfgVars, ctx_guild, message, mention_everyone, clean_message, sent_count,
                 failed_channels, it, lang_code, channel_id, translated_message,
                 full_message, startMap, resolved, translatorCalls, sends, outcomes,
                 adminCount, calls>>
  /\ UNCHANGED <<prevRun, filterVars, opsVars>>

\* a counter kept from one call to the next
StartCountCarried == IF prevRun = NoRun THEN 0 ELSE prevRun.sent_count

\* sent_count = 0
StartCount == 0

\* ctx.send("Translating and sending announcements...") returns or raises;
\* on return the for statement takes its iterator from the live dict
ReplyProgressReturns(ok) ==
  /\ pc = "reply_progress"
  /\ replies' = Append(replies, [kind |-> "progress", ok |-> ok])
  /\ IF ok
     THEN /\ sent_count' = StartCount /\ failed_channels' = <<>>
          /\ it' = DictIter(announcement_language_channels[ctx_guild])
          /\ pc' = "loop"
     ELSE /\ pc' = "reply_failed"
          /\ UNCHANGED <<sent_count, failed_channels, it>>
  /\ UNCHANGED <<cfgVars, ctx_guild, message, mention_everyone, clean_message,
                 lang_code, channel_id, translated_message, full_message, result,
                 startMap, resolved, translatorCalls, sends, outcomes, adminCount, calls>>
  /\ UNCHANGED <<prevRun, filterVars, opsVars>>

LoopReadySpawned == pc \in {"loop", "typing", "translate", "send"}

\* the awaits of the loop body are awaited inline: the for statement takes
\* its next item only when the body of the previous one is over
LoopReady == pc = "loop"

\* the head of the for statement and the channel lookup, lines 54-67
LoopNext(found) ==
  /\ LoopReady
  /\ LET n == DictNext(announcement_language_channels[ctx_guild], it) IN
     /\ it' = n.it
     /\ available_announcement_languages' =
          IF n.kind = "item" /\ AfterResolve(found, n.key) = "loop"
          THEN AvailableAfterLookup(available_announcement_languages, n.key)
          ELSE available_announcement_languages
     /\ CASE n.kind = "error" ->
               /\ pc' = "reply_failed"
               /\ UNCHANGED <<lang_code, channel_id, failed_channels, translated_message,
                              full_message, resolved, outcomes>>
          [] n.kind = "stop" ->
               /\ pc' = "reply_summary"
               /\ UNCHANGED <<lang_code, channel_id, failed_channels, translated_message,
                              full_message, resolved, outcomes>>
          [] n.kind = "item" ->
               /\ lang_code' = n.key /\ channel_id' = n.value
               /\ resolved' = Append(resolved, [lang |-> n.key, chan |-> n.value, found |-> found])
               /\ pc' = AfterResolve(found, n.key)
               /\ IF AfterResolve(found, n.key) = "loop"
                  THEN /\ failed_channels' = RecordFailedBy(cog, failed_channels,
                              LangName(available_announcement_languages, n.key),
                              "channel not found")
                       /\ outcomes' = Append(outcomes,
                              [lang |-> n.key, chan |-> n.value,
                               status |-> "ChannelNotFound", detail |-> "channel not found"])
                       /\ UNCHANGED <<translated_message, full_message>>
                  ELSE IF AfterResolve(found, n.key) = "send"
                  THEN /\ translated_message' = clean_message
                       /\ full_message' =
                            FullMessage(cog, clean_message, clean_message, n.key,
                                        LangName(available_announcement_languages, n.key))
                       /\ UNCHANGED <<failed_channels, outcomes>>
                  ELSE UNCHANGED <<failed_channels, outcomes, translated_message, full_message>>
  /\ UNCHANGED <<announcement_language_channels, ctx_guild, message, mention_everyone,
                 clean_message, sent_count, result, startMap, translatorCalls, sends,
                 replies, adminCount, calls>>
  /\ UNCHANGED <<prevRun, filterVars, opsVars>>

\* `async with target_channel.typing()` is entered, or raises
TypingReturns(ok) ==
  /\ pc = "typing"
  /\ IF ok THEN pc' = "translate" /\ UNCHANGED <<failed_channels, outcomes>>
           ELSE DestinationError("typing")
  /\ UNCHANGED <<cfgVars, ctx_guild, message, mention_everyone, clean_message, sent_count,
                 it, lang_code, channel_id, translated_message, full_message, result,
                 startMap, resolved, translatorCalls, sends, replies, adminCount, calls>>
  /\ UNCHANGED <<prevRun, filterVars, opsVars>>

\* translate_text returns; the message is put together, lines 67-71
TranslateReturns(providerOk) ==
  /\ pc = "translate"
  /\ translatorCalls' = Append(translatorCalls,
        [text |-> clean_message, target |-> lang_code, ok |-> providerOk])
  /\ LET r == translate_text(clean_message, lang_code, providerOk) IN
     IF r.raised
     THEN DestinationError("translate") /\ UNCHANGED <<translated_message, full_message>>
     ELSE /\ translated_message' = r.value
          /\ full_message' =
               FullMessage(cog, r.value, clean_message, lang_code,
                           LangName(available_announcement_languages, lang_code))
          /\ pc' = "send"
          /\ UNCHANGED <<failed_channels, outcomes>>
  /\ UNCHANGED <<cfgVars, ctx_guild, message, mention_everyone, clean_message, sent_count,
                 it, lang_code, channel_id, result, startMap, resolved, sends, replies,
                 adminCount, calls>>
  /\ UNCHANGED <<prevRun, filterVars, opsVars>>

\* target_channel.send returns or raises, lines 73-84
SendReturns(ok) ==
  /\ pc = "send"
  /\ sends' = Append(sends, [lang |-> lang_code, chan |-> channel_id,
                             content |-> SendArgument(cog, mention_everyone, full_message),
                             ok |-> ok])
  /\ sent_count' = CountSent(sent_count, ok)
  /\ IF ok THEN /\ outcomes' = Append(outcomes, Outcome("Sent", ""))
                /\ pc' = "loop"
                /\ UNCHANGED failed_channels
           ELSE DestinationError("send")
  /\ UNCHANGED <<cfgVars, ctx_guild, message, mention_everyone, clean_message, it,
                 lang_code, channel_id, translated_message, full_message, result,
                 startMap, resolved, translatorCalls, replies, adminCount, calls>>
  /\ UNCHANGED <<prevRun, filterVars, opsVars>>

\* ctx.send(summary) returns or raises, lines 86-92
ReplySummaryReturns(ok) ==
  /\ pc = "reply_summary"
  /\ replies' = Append(replies, [kind |-> "summary", ok |-> ok])
  /\ IF ok THEN pc' = "done" /\ result' = "returned"
           ELSE pc' = "reply_failed" /\ UNCHANGED result
  /\ UNCHANGED <<cfgVars, ctx_guild, message, mention_everyone, clean_message, sent_count,
                 failed_channels, it, lang_code, channel_id, translated_message,
                 full_message, startMap, resolved, translatorCalls, sends, outcomes,
                 adminCount, calls>>
  /\ UNCHANGED <<prevRun, filterVars, opsVars>>

\* the outer `except Exception`: ctx.send("Failed to send announcements ...")
ReplyFailedReturns(ok) ==
  /\ pc = "reply_failed"
  /\ replies' = Append(replies, [kind |-> "failed", ok |-> ok])
  /\ pc' = "done"
  /\ result' = IF ok THEN "returned" ELSE "raised"
  /\ UNCHANGED <<cfgVars, ctx_guild, message, mention_everyone, clean_message, sent_count,
                 failed_channels, it, lang_code, channel_id, translated_message,
                 full_message, startMap, resolved, translatorCalls, sends, outcomes,
                 adminCount, calls>>
  /\ UNCHANGED <<prevRun, filterVars, opsVars>>

\* the call is over; the next command is awaited
EndCall ==
  /\ pc = "done"
  /\ pc' = "idle"
  /\ ctx_guild' = "g1" /\ message' = <<>>
  /\ mention_everyone' = FALSE /\ clean_message' = <<>>
  /\ sent_count' = 0 /\ failed_channels' = <<>> /\ it' = NoIter
  /\ lang_code' = "" /\ channel_id' = NoChannel
  /\ translated_message' = <<>> /\ full_message' = <<>> /\ result' = "none"
  /\ startMap' = <<>> /\ resolved' = <<>> /\ translatorCalls' = <<>>
  /\ sends' = <<>> /\ outcomes' = <<>> /\ replies' = <<>>
  /\ cog' = "text"
  /\ UNCHANGED <<cfgVars, adminCount, calls, filterVars, adminReplies, toggleCalls>>

Return == EndCall /\ UNCHANGED prevRun

\* the call is over and is remembered as the previous run
ReturnRemembered ==
  /\ EndCall
  /\ prevRun' = [calls |-> calls, guild |-> ctx_guild, message |-> message,
                 startMap |-> startMap, resolved |-> resolved,
                 translatorCalls |-> translatorCalls, sends |-> sends,
                 outcomes |-> outcomes, replies |-> replies,
                 sent_count |-> sent_count, failed_channels |-> failed_channels,
                 result |-> result]

\* the same command is given again
Rerun ==
  /\ prevRun # NoRun /\ calls <= MaxCalls
  /\ StartCall(prevRun.guild, prevRun.message)

\* the same command is given to the embed cog
RerunEmbed ==
  /\ prevRun # NoRun /\ calls <= MaxCalls
  /\ StartCallIn("embed", prevRun.guild, prevRun.message)

(* Collaborators that behave as in the previous run: a call made with the  *)
(* arguments of a call of the previous run gets the answer that call got;  *)
(* any other call gets any answer.                                         *)
AnswersOf(log, Same(_), Answer(_)) ==
  IF \E k \in DOMAIN log : Same(log[k])
  THEN {Answer(log[k]) : k \in {j \in DOMAIN log : Same(log[j])}}
  ELSE BOOLEAN

ReplyAnswers(kind) ==
  IF prevRun = NoRun THEN BOOLEAN
  ELSE LET Same(r) == r.kind = kind
           Answer(r) == r.ok
       IN  AnswersOf(prevRun.replies, Same, Answer)

FoundAnswers ==
  LET n == DictNext(announcement_language_channels[ctx_guild], it)
  IN  IF prevRun = NoRun \/ pc # "loop" \/ n.kind # "item" THEN BOOLEAN
      ELSE LET Same(r) == r.chan = n.value
               Answer(r) == r.found
           IN  AnswersOf(prevRun.resolved, Same, Answer)

TypingAnswers ==
  IF prevRun = NoRun THEN BOOLEAN
  ELSE IF \E k \in DOMAIN prevRun.outcomes :
            prevRun.outcomes[k].chan = channel_id /\ prevRun.outcomes[k].detail = "typing"
       THEN {FALSE}
       ELSE IF \E k \in DOMAIN prevRun.translatorCalls :
                 prevRun.translatorCalls[k].target = lang_code
            THEN {TRUE}
            ELSE BOOLEAN

ProviderAnswers ==
  IF prevRun = NoRun THEN BOOLEAN
  ELSE LET Same(r) == r.text = clean_message /\ r.target = lang_code
           Answer(r) == r.ok
       IN  AnswersOf(prevRun.translatorCalls, Same, Answer)

SendAnswers ==
  IF prevRun = NoRun THEN BOOLEAN
  ELSE LET Same(r) == r.chan = channel_id
                        /\ r.content = SendContent(mention_everyone, full_message)
           Answer(r) == r.ok
       IN  AnswersOf(prevRun.sends, Same, Answer)

\* ------------------------------------------------------------------ admin commands
\* the language codes an admin types
AdminCodes == LangCodes \cup {"EN", "xx"}

\* language_code.lower()
LowerCode(c) == IF c = "EN" THEN "en" ELSE c

\* a setter that writes the entry into every guild's map
set_announcement_language_channel_everywhere(alc, g, code, ch) ==
  [h \in DOMAIN alc |-> DictSet(alc[h], code, ch)]

\* BotConfig.set_announcement_language_channel
set_announcement_language_channel(alc, g, code, ch) ==
  [alc EXCEPT ![g] = DictSet(alc[g], code, ch)]

\* BotConfig.remove_announcement_language_channel
remove_announcement_language_channel(alc, g, code) ==
  IF DictHas(alc[g], code) THEN [alc EXCEPT ![g] = DictDel(alc[g], code)] ELSE alc

\* a removal that leaves the channel maps as they are
remove_announcement_language_only(alc, avail, code) == alc

\* BotConfig.remove_announcement_language: the channel maps afterwards
remove_announcement_language(alc, avail, code) ==
  IF code \in DOMAIN avail
  THEN [g \in Guilds |-> IF DictHas(alc[g], code) THEN DictDel(alc[g], code) ELSE alc[g]]
  ELSE alc

\* the ctx.send calls of one admin command: the reply it composed and,
\* when that send raises, the text of its except branch, which may raise
\* in its turn
AdminReply(cmd, kind) ==
  \E ok \in BOOLEAN, okFailed \in BOOLEAN :
    adminReplies' =
      IF ok THEN <<[cmd |-> cmd, kind |-> kind, ok |-> TRUE]>>
      ELSE <<[cmd |-> cmd, kind |-> kind, ok |-> FALSE],
             [cmd |-> cmd, kind |-> "failed", ok |-> okFailed]>>

\* a validation whose branch does not return
AfterValidationFallsThrough(valid) == "set"

\* where set_language_channel goes after validating the code: the invalid
\* branch ends in return
AfterValidation(valid) == IF valid THEN "set" ELSE "return"

\* !set_lang_channel <code> #channel
set_language_channel(g, c, ch) ==
  /\ adminCount' = adminCount + 1
  /\ IF AfterValidation(LowerCode(c) \in DOMAIN available_announcement_languages) = "return"
     THEN /\ UNCHANGED announcement_language_channels
          /\ AdminReply("set_lang_channel", "error")
     ELSE /\ AdminReply("set_lang_channel", "ok")
          /\ DictHas(announcement_language_channels[g], LowerCode(c))
               \/ Len(announcement_language_channels[g]) < MaxSlots
          /\ announcement_language_channels' =
               set_announcement_language_channel(announcement_language_channels, g,
                                                 LowerCode(c), ch)
  /\ UNCHANGED <<available_announcement_languages, pc, frameVars, logVars, calls>>
  /\ UNCHANGED <<prevRun, filterVars, toggleCalls, cog>>

\* !remove_lang_channel <code>
remove_language_channel(g, c) ==
  /\ adminCount' = adminCount + 1
  /\ IF DictGet(announcement_language_channels[g], LowerCode(c)) = NoChannel
     THEN /\ UNCHANGED announcement_language_channels
          /\ AdminReply("remove_lang_channel", "error")
     ELSE /\ announcement_language_channels' =
               remove_announcement_language_channel(announcement_language_channels, g,
                                                    LowerCode(c))
          /\ AdminReply("remove_lang_channel", "ok")
  /\ UNCHANGED <<available_announcement_languages, pc, frameVars, logVars, calls>>
  /\ UNCHANGED <<prevRun, filterVars, toggleCalls, cog>>

\* !add_lang <code> <name>
add_language(c) ==
  /\ adminCount' = adminCount + 1
  /\ IF LowerCode(c) \in DOMAIN available_announcement_languages
     THEN /\ UNCHANGED available_announcement_languages
          /\ AdminReply("add_lang", "error")
     ELSE /\ available_announcement_languages' =
               [k \in DOMAIN available_announcement_languages \cup {LowerCode(c)} |->
                  IF k = LowerCode(c) THEN LangName(DefaultLanguages, k)
                  ELSE available_announcement_languages[k]]
          /\ AdminReply("add_lang", "ok")
  /\ UNCHANGED <<announcement_language_channels, pc, frameVars, logVars, calls>>
  /\ UNCHANGED <<prevRun, filterVars, toggleCalls, cog>>

\* !remove_lang <code>
remove_language(c) ==
  /\ adminCount' = adminCount + 1
  /\ announcement_language_channels' =
       IF LowerCode(c) \in DOMAIN available_announcement_languages
       THEN remove_announcement_language(announcement_language_channels,
                                         available_announcement_languages, LowerCode(c))
       ELSE announcement_language_channels
  /\ available_announcement_languages' =
       [k \in DOMAIN available_announcement_languages \ {LowerCode(c)} |->
          available_announcement_languages[k]]
  /\ AdminReply("remove_lang",
                IF LowerCode(c) \in DOMAIN available_announcement_languages
                THEN "ok" ELSE "error")
  /\ UNCHANGED <<pc, frameVars, logVars, calls>>
  /\ UNCHANGED <<prevRun, filterVars, toggleCalls, cog>>

\* the commands as SpecLive takes them, MaxAdmin of them per behaviour
SetLangChannel(g, c, ch) == adminCount < MaxAdmin /\ set_language_channel(g, c, ch)
RemoveLangChannel(g, c) == adminCount < MaxAdmin /\ remove_language_channel(g, c)
AddLang(c) == adminCount < MaxAdmin /\ add_language(c)
RemoveLang(c) == adminCount < MaxAdmin /\ remove_language(c)

Admin ==
  \/ \E g \in Guilds, c \in AdminCodes, ch \in ChannelIds : SetLangChannel(g, c, ch)
  \/ \E g \in Guilds, c \in AdminCodes : RemoveLangChannel(g, c)
  \/ \E c \in AdminCodes : AddLang(c)
  \/ \E c \in AdminCodes : RemoveLang(c)

\* ------------------------------------------------------------------ on_message
\* the message texts users post
FilterContents ==
  { <<>>, <<" ", " ">>, <<"!", "h", "i">>, <<"o", "k">>, <<"h", "i", "!">>,
    <<"H", "e", "l", "l", "o", " ", "W", "o", "r", "l", "d">>,
    <<"B", "o", "n", "j", "o", "u", "r">>,
    <<"a", "_", "b">> }

\* the texts GoogleTranslator(source='auto', target='en').translate returns
EnglishRenderings ==
  { <<>>, <<"o", "k">>, <<"h", "i">>,
    <<"h", "e", "l", "l", "o", " ", " ", " ", "w", "o", "r", "l", "d">>,
    <<"H", "e", "l", "l", "o">>,
    <<"a", " ", "b">> }

\* the codes single_detection returns
DetectAnswers == {"en", "fr"}

\* the channels messages are posted in
FilterChannels == {1, 2}

\* auto_translate_channels as the configuration file holds it
InitWatched == {<<>>, <<1>>, <<2, 1>>}

\* a message is dispatched to on_message: the gates, up to the first await
OnMessage(bot, content, channel) ==
  /\ arrived < MaxMessages
  /\ LET id == arrived + 1
         gate == GateOf(bot, content, channel, auto_translate_channels)
     IN  /\ arrived' = id
         /\ inv' = [inv EXCEPT ![id] =
                      [NoFrame EXCEPT !.pc = IF gate = "in" THEN "detect" ELSE "done",
                                      !.bot = bot, !.content = content,
                                      !.channel = channel, !.gate = gate]]
  /\ UNCHANGED <<auto_translate_channels, channelLog, fanoutVars, opsVars>>

\* asyncio.to_thread(single_detection, ...) returns a code or raises
DetectReturns(id, ok, code) ==
  /\ inv[id].pc = "detect"
  /\ LET detected_lang == IF ok THEN code ELSE DetectFallback
     IN  inv' = [inv EXCEPT ![id] =
                   [@ EXCEPT !.detected_lang = detected_lang,
                             !.detectFailed = ~ok,
                             !.detectCalls = Append(@, inv[id].content),
                             !.pc = IF AlreadyEnglish(detected_lang)
                                    THEN "done" ELSE "translate"]]
  /\ UNCHANGED <<auto_translate_channels, arrived, channelLog, fanoutVars, opsVars>>

\* asyncio.to_thread(translator.translate, ...) returns a text or raises
FilterTranslateReturns(id, ok, text) ==
  /\ inv[id].pc = "translate"
  /\ inv' = [inv EXCEPT ![id] =
               IF ok
               THEN [@ EXCEPT !.translateCalls = Append(@, inv[id].content),
                              !.translated = text,
                              !.pc = IF SignificantlyDifferent(inv[id].content, text)
                                     THEN "notice" ELSE "done"]
               ELSE [@ EXCEPT !.translateCalls = Append(@, inv[id].content),
                              !.translateFailed = TRUE,
                              !.pc = "diagnostic"]]
  /\ UNCHANGED <<auto_translate_channels, arrived, channelLog, fanoutVars, opsVars>>

\* replies that go to the first watched channel
message_channel_first_watched(f) == auto_translate_channels[1]

\* message.channel, the receiver of both sends
message_channel(f) == f.channel

\* message.channel.send(embed=embed) returns or raises
NoticeSendReturns(id, ok) ==
  /\ inv[id].pc = "notice"
  /\ LET embed == Notice(inv[id].detected_lang, inv[id].content, inv[id].translated)
         sent == [chan |-> message_channel(inv[id]), ok |-> ok, payload |-> embed]
     IN  /\ inv' = [inv EXCEPT ![id] =
                      [@ EXCEPT !.sends = Append(@, sent),
                                !.pc = AfterNotice(ok)]]
         /\ channelLog' = Append(channelLog,
                             [id |-> id, chan |-> message_channel(inv[id]),
                              kind |-> "notice", ok |-> ok])
  /\ UNCHANGED <<auto_translate_channels, arrived, fanoutVars, opsVars>>

\* message.channel.send("Auto-translation failed: ...") returns or raises
DiagnosticSendReturns(id, ok) ==
  /\ inv[id].pc = "diagnostic"
  /\ LET sent == [chan |-> message_channel(inv[id]), ok |-> ok, payload |-> Diagnostic]
     IN  /\ inv' = [inv EXCEPT ![id] =
                      [@ EXCEPT !.sends = Append(@, sent),
                                !.raised = DiagnosticEscapes(ok),
                                !.pc = "done"]]
         /\ channelLog' = Append(channelLog,
                             [id |-> id, chan |-> message_channel(inv[id]),
                              kind |-> "diagnostic", ok |-> ok])
  /\ UNCHANGED <<auto_translate_channels, arrived, fanoutVars, opsVars>>

\* message.content of a message the bot sent: a notice is an embed without
\* content, a diagnostic is its text
OwnContent(kind) == IF kind = "diagnostic" THEN DiagnosticText ELSE <<>>

\* a message the pipeline delivered is dispatched to on_message in its
\* turn, its author being the bot
OnOwnMessage(k) ==
  /\ k \in DOMAIN channelLog /\ channelLog[k].ok
  /\ \A i \in 1..MaxMessages : inv[i].echoOf # k
  /\ arrived < MaxMessages
  /\ LET id == arrived + 1
         content == OwnContent(channelLog[k].kind)
         gate == GateOf(TRUE, content, channelLog[k].chan, auto_translate_channels)
     IN  /\ arrived' = id
         /\ inv' = [inv EXCEPT ![id] =
                      [NoFrame EXCEPT !.pc = IF gate = "in" THEN "detect" ELSE "done",
                                      !.bot = TRUE, !.content = content,
                                      !.channel = channelLog[k].chan, !.gate = gate,
                                      !.echoOf = k]]
  /\ UNCHANGED <<auto_translate_channels, channelLog, fanoutVars, opsVars>>

\* every invocation is over; their frames are gone
Forget ==
  /\ \E i \in 1..MaxMessages : inv[i].pc = "done"
  /\ \A i \in 1..MaxMessages : inv[i].pc \in {"none", "done"}
  /\ inv' = [i \in 1..MaxMessages |-> NoFrame]
  /\ channelLog' = <<>>
  /\ UNCHANGED <<auto_translate_channels, arrived, fanoutVars, opsVars>>

\* ------------------------------------------------------------------ auto_translate
MaxToggles == 3

\* channel_id in self.auto_translate_channels
InList(list, x) == \E i \in DOMAIN list : list[i] = x

\* list.remove(x): the first occurrence goes
RECURSIVE ListRemove(_, _)
ListRemove(list, x) ==
  IF list = <<>> THEN <<>>
  ELSE IF Head(list) = x THEN Tail(list)
  ELSE <<Head(list)>> \o ListRemove(Tail(list), x)

\* BotConfig.add_auto_translate_channel
add_auto_translate_channel(list, chan) ==
  IF ~InList(list, chan) THEN Append(list, chan) ELSE list

\* BotConfig.remove_auto_translate_channel
remove_auto_translate_channel(list, chan) ==
  IF InList(list, chan) THEN ListRemove(list, chan) ELSE list

\* a command that only ever enables
ToggledOn(list, chan) == add_auto_translate_channel(list, chan)

\* the watch list after the if/else of toggle_auto_translate
Toggled(list, chan) ==
  IF InList(list, chan)
  THEN remove_auto_translate_channel(list, chan)
  ELSE add_auto_translate_channel(list, chan)

\* the on_message invocations suspended at an await
Suspensions == {i \in 1..arrived : inv[i].pc \notin {"none", "done"}}

\* !auto_translate #channel, up to its await ctx.send
toggle_auto_translate(channel) ==
  /\ Len(toggleCalls) < MaxToggles
  /\ auto_translate_channels' = Toggled(auto_translate_channels, channel)
  /\ toggleCalls' = Append(toggleCalls,
                           [channel |-> channel,
                            enabled |-> ~InList(auto_translate_channels, channel),
                            inFlight |-> Suspensions,
                            pc |-> "reply", replies |-> <<>>, raised |-> FALSE])
  /\ UNCHANGED <<inv, arrived, channelLog, adminReplies, cog, fanoutVars>>

\* ctx.send("Auto-translation enabled/disabled ...") returns or raises
ToggleReplyReturns(k, ok) ==
  /\ k \in DOMAIN toggleCalls
  /\ toggleCalls[k].pc = "reply"
  /\ toggleCalls' = [toggleCalls EXCEPT ![k] =
                       [@ EXCEPT !.replies = Append(@, [kind |-> "ok", ok |-> ok]),
                                 !.pc = IF ok THEN "done" ELSE "reply_failed"]]
  /\ UNCHANGED <<filterVars, adminReplies, cog, fanoutVars>>

\* ctx.send("Failed to toggle auto-translation.") returns or raises
ToggleFailedReplyReturns(k, ok) ==
  /\ k \in DOMAIN toggleCalls
  /\ toggleCalls[k].pc = "reply_failed"
  /\ toggleCalls' = [toggleCalls EXCEPT ![k] =
                       [@ EXCEPT !.replies = Append(@, [kind |-> "failed", ok |-> ok]),
                                 !.raised = ~ok,
                                 !.pc = "done"]]
  /\ UNCHANGED <<filterVars, adminReplies, cog, fanoutVars>>

\* ------------------------------------------------------------------ specifications
Fanout ==
  \/ \E g \in Guilds, msg \in Messages : Announce(g, msg)
  \/ \E ok \in BOOLEAN : ReplyNoDestReturns(ok)
  \/ \E ok \in BOOLEAN : ReplyProgressReturns(ok)
  \/ \E found \in BOOLEAN : LoopNext(found)
  \/ \E ok \in BOOLEAN : TypingReturns(ok)
  \/ \E providerOk \in BOOLEAN : TranslateReturns(providerOk)
  \/ \E ok \in BOOLEAN : SendReturns(ok)
  \/ \E ok \in BOOLEAN : ReplySummaryReturns(ok)
  \/ \E ok \in BOOLEAN : ReplyFailedReturns(ok)
  \/ Return

\* the awaits of announce: the event loop may run another handler there
Suspended == {"reply_nodest", "reply_progress", "typing", "translate", "send",
              "reply_summary", "reply_failed"}

(* Spec: the fan-out engine alone, over every channel map of InitMaps; the *)
(* configuration is not touched while the call is in flight.               *)
Next == Fanout
Spec == Init /\ [][Next]_vars

(* SpecEveryone: the fan-out engine entered through announce_everyone.     *)
NextEveryone ==
  \/ \E g \in Guilds, msg \in Messages : announce_everyone(g, msg)
  \/ \E ok \in BOOLEAN : ReplyNoDestReturns(ok)
  \/ \E ok \in BOOLEAN : ReplyProgressReturns(ok)
  \/ \E found \in BOOLEAN : LoopNext(found)
  \/ \E ok \in BOOLEAN : TypingReturns(ok)
  \/ \E providerOk \in BOOLEAN : TranslateReturns(providerOk)
  \/ \E ok \in BOOLEAN : SendReturns(ok)
  \/ \E ok \in BOOLEAN : ReplySummaryReturns(ok)
  \/ \E ok \in BOOLEAN : ReplyFailedReturns(ok)
  \/ Return
SpecEveryone == Init /\ [][NextEveryone]_vars

(* SpecLive: the event loop's scheduling, an admin command may be handled  *)
(* at any await of a call in flight.                                       *)
LiveMessages == {<<"h", "i">>}
NextLive ==
  \/ \E msg \in LiveMessages : Announce("g1", msg)
  \/ \E ok \in BOOLEAN : ReplyNoDestReturns(ok)
  \/ \E ok \in BOOLEAN : ReplyProgressReturns(ok)
  \/ \E found \in BOOLEAN : LoopNext(found)
  \/ \E ok \in BOOLEAN : TypingReturns(ok)
  \/ \E providerOk \in BOOLEAN : TranslateReturns(providerOk)
  \/ \E ok \in BOOLEAN : SendReturns(ok)
  \/ \E ok \in BOOLEAN : ReplySummaryReturns(ok)
  \/ \E ok \in BOOLEAN : ReplyFailedReturns(ok)
  \/ Return
  \/ (pc \in Suspended \cup {"idle"} /\ Admin)
SpecLive == Init /\ [][NextLive]_vars

(* SpecRerun: a call of announce, then the same command again with the    *)
(* configuration untouched and every collaborator answering as before.     *)
NextRerun ==
  \/ \E g \in Guilds, msg \in Messages : prevRun = NoRun /\ Announce(g, msg)
  \/ Rerun
  \/ \E ok \in ReplyAnswers("nodest") : ReplyNoDestReturns(ok)
  \/ \E ok \in ReplyAnswers("progress") : ReplyProgressReturns(ok)
  \/ \E found \in FoundAnswers : LoopNext(found)
  \/ \E ok \in TypingAnswers : TypingReturns(ok)
  \/ \E providerOk \in ProviderAnswers : TranslateReturns(providerOk)
  \/ \E ok \in SendAnswers : SendReturns(ok)
  \/ \E ok \in ReplyAnswers("summary") : ReplySummaryReturns(ok)
  \/ \E ok \in ReplyAnswers("failed") : ReplyFailedReturns(ok)
  \/ ReturnRemembered
SpecRerun == Init /\ [][NextRerun]_vars

(* SpecCogs: a call handled by the plain-text cog, then the same command  *)
(* handled by the embed cog with the configuration untouched and every     *)
(* collaborator answering each destination as before.                      *)
SendAnswersByChannel ==
  IF prevRun = NoRun THEN BOOLEAN
  ELSE LET Same(r) == r.chan = channel_id
           Answer(r) == r.ok
       IN  AnswersOf(prevRun.sends, Same, Answer)
NextCogs ==
  \/ \E g \in Guilds, msg \in Messages : prevRun = NoRun /\ Announce(g, msg)
  \/ RerunEmbed
  \/ \E ok \in ReplyAnswers("nodest") : ReplyNoDestReturns(ok)
  \/ \E ok \in ReplyAnswers("progress") : ReplyProgressReturns(ok)
  \/ \E found \in FoundAnswers : LoopNext(found)
  \/ \E ok \in TypingAnswers : TypingReturns(ok)
  \/ \E providerOk \in ProviderAnswers : TranslateReturns(providerOk)
  \/ \E ok \in SendAnswersByChannel : SendReturns(ok)
  \/ \E ok \in ReplyAnswers("summary") : ReplySummaryReturns(ok)
  \/ \E ok \in ReplyAnswers("failed") : ReplyFailedReturns(ok)
  \/ ReturnRemembered
SpecCogs == Init /\ [][NextCogs]_vars

(* SpecAdmin: the four admin commands alone, in any order, from empty     *)
(* channel maps.                                                           *)
MaxCommands == 3
AdminChannels == {1, 2}
InitAdmin ==
  /\ announcement_language_channels = [g \in Guilds |-> <<>>]
  /\ available_announcement_languages = DefaultLanguages
  /\ pc = "idle"
  /\ FrameInit /\ LogInit
  /\ adminCount = 0 /\ calls = 0
  /\ prevRun = NoRun
  /\ auto_translate_channels = <<>> /\ FilterIdle /\ OpsIdle
NextAdmin ==
  /\ adminCount < MaxCommands
  /\ \/ \E g \in Guilds, c \in AdminCodes, ch \in AdminChannels : set_language_channel(g, c, ch)
     \/ \E g \in Guilds, c \in AdminCodes : remove_language_channel(g, c)
     \/ \E c \in AdminCodes : add_language(c)
     \/ \E c \in AdminCodes : remove_language(c)
SpecAdmin == InitAdmin /\ [][NextAdmin]_vars

(* SpecFair: Spec with every await of a call eventually returning or       *)
(* raising.                                                                *)
SpecFair == Init /\ [][Next]_vars /\ WF_vars(Next)

\* the configuration on_message runs under; no announce call is made
InitFilter ==
  /\ announcement_language_channels = [g \in Guilds |-> <<>>]
  /\ available_announcement_languages = DefaultLanguages
  /\ pc = "idle"
  /\ FrameInit /\ LogInit
  /\ adminCount = 0 /\ calls = 0
  /\ prevRun = NoRun
  /\ auto_translate_channels \in InitWatched /\ FilterIdle /\ OpsIdle

FilterSteps ==
  \/ \E id \in 1..MaxMessages, ok \in BOOLEAN, code \in DetectAnswers :
       DetectReturns(id, ok, code)
  \/ \E id \in 1..MaxMessages, ok \in BOOLEAN, text \in EnglishRenderings :
       FilterTranslateReturns(id, ok, text)
  \/ \E id \in 1..MaxMessages, ok \in BOOLEAN : NoticeSendReturns(id, ok)
  \/ \E id \in 1..MaxMessages, ok \in BOOLEAN : DiagnosticSendReturns(id, ok)

(* SpecFilter: on_message alone, one message at a time, over every text of *)
(* FilterContents and every answer of the detector and the translator.     *)
OnMessageAlone(bot, content, channel) ==
  /\ \A i \in 1..MaxMessages : inv[i].pc = "none"
  /\ OnMessage(bot, content, channel)

NextFilter ==
  \/ \E bot \in BOOLEAN, content \in FilterContents, channel \in FilterChannels :
       OnMessageAlone(bot, content, channel)
  \/ FilterSteps
  \/ Forget
SpecFilter == InitFilter /\ [][NextFilter]_vars

(* SpecFilterLive: the event loop's scheduling of listeners, each message  *)
(* dispatched starts its own on_message task, which runs up to its first   *)
(* await while the tasks of earlier messages may still be suspended.       *)
LiveContents == {<<"B", "o", "n", "j", "o", "u", "r">>}
LiveRenderings == {<<"H", "e", "l", "l", "o">>}
FilterLiveSteps ==
  \/ \E id \in 1..MaxMessages, ok \in BOOLEAN, code \in DetectAnswers :
       DetectReturns(id, ok, code)
  \/ \E id \in 1..MaxMessages, ok \in BOOLEAN, text \in LiveRenderings :
       FilterTranslateReturns(id, ok, text)
  \/ \E id \in 1..MaxMessages, ok \in BOOLEAN : NoticeSendReturns(id, ok)
  \/ \E id \in 1..MaxMessages, ok \in BOOLEAN : DiagnosticSendReturns(id, ok)
NextFilterLive ==
  \/ \E content \in LiveContents : OnMessage(FALSE, content, 1)
  \/ FilterLiveSteps
SpecFilterLive == InitFilter /\ [][NextFilterLive]_vars

(* SpecToggle: auto_translate commands alone, each its own task, from an  *)
(* empty watch list.                                                       *)
ToggleChannels == {1, 2, 3}
InitToggle ==
  /\ announcement_language_channels = [g \in Guilds |-> <<>>]
  /\ available_announcement_languages = DefaultLanguages
  /\ pc = "idle"
  /\ FrameInit /\ LogInit
  /\ adminCount = 0 /\ calls = 0
  /\ prevRun = NoRun
  /\ auto_translate_channels = <<>> /\ FilterIdle /\ OpsIdle
ToggleSteps ==
  \/ \E k \in 1..MaxToggles, ok \in BOOLEAN : ToggleReplyReturns(k, ok)
  \/ \E k \in 1..MaxToggles, ok \in BOOLEAN : ToggleFailedReplyReturns(k, ok)
NextToggle ==
  \/ \E channel \in ToggleChannels : toggle_auto_translate(channel)
  \/ ToggleSteps
SpecToggle == InitToggle /\ [][NextToggle]_vars

(* SpecFilterToggle: SpecFilterLive with auto_translate commands arriving *)
(* while on_message invocations are suspended.                             *)
MaxLiveToggles == 1
MaxLiveMessages == 1
LiveChannels == {1}
NextFilterToggle ==
  \/ \E content \in LiveContents : arrived < MaxLiveMessages /\ OnMessage(FALSE, content, 1)
  \/ FilterLiveSteps
  \/ \E channel \in LiveChannels :
       Len(toggleCalls) < MaxLiveToggles /\ toggle_auto_translate(channel)
  \/ ToggleSteps
SpecFilterToggle == InitFilter /\ [][NextFilterToggle]_vars

(* SpecFilterEcho: SpecFilterLive with the messages the pipeline itself    *)
(* delivers coming back to on_message as messages of a bot.                *)
NextFilterEcho ==
  \/ \E content \in LiveContents : OnMessage(FALSE, content, 1)
  \/ \E k \in 1..(2 * MaxMessages) : OnOwnMessage(k)
  \/ \E id \in 1..MaxMessages, ok \in BOOLEAN, code \in DetectAnswers :
       DetectReturns(id, ok, code)
  \/ \E id \in 1..MaxMessages, ok \in BOOLEAN, text \in LiveRenderings :
       FilterTranslateReturns(id, ok, text)
  \/ \E id \in 1..MaxMessages, ok \in BOOLEAN : NoticeSendReturns(id, ok)
  \/ \E id \in 1..MaxMessages, ok \in BOOLEAN : DiagnosticSendReturns(id, ok)
SpecFilterEcho == InitFilter /\ [][NextFilterEcho]_vars

(* SpecBoth: announce calls and on_message invocations under the same    *)
(* event loop, either running at the awaits of the other.                  *)
InitBoth ==
  /\ announcement_language_channels =
       [g \in Guilds |-> IF g = "g1"
                         THEN <<[key |-> "en", value |-> 1], [key |-> "pt", value |-> 2],
                                [key |-> "ko", value |-> 3]>>
                         ELSE <<>>]
  /\ available_announcement_languages \in InitAvailable
  /\ pc = "idle"
  /\ FrameInit /\ LogInit
  /\ adminCount = 0 /\ calls = 0
  /\ prevRun = NoRun
  /\ auto_translate_channels = <<1>> /\ FilterIdle /\ OpsIdle
NextBoth ==
  \/ \E g \in Guilds, msg \in LiveMessages : Announce(g, msg)
  \/ \E ok \in BOOLEAN : ReplyNoDestReturns(ok)
  \/ \E ok \in BOOLEAN : ReplyProgressReturns(ok)
  \/ \E found \in BOOLEAN : LoopNext(found)
  \/ \E ok \in BOOLEAN : TypingReturns(ok)
  \/ \E providerOk \in BOOLEAN : TranslateReturns(providerOk)
  \/ \E ok \in BOOLEAN : SendReturns(ok)
  \/ \E ok \in BOOLEAN : ReplySummaryReturns(ok)
  \/ \E ok \in BOOLEAN : ReplyFailedReturns(ok)
  \/ \E content \in LiveContents : OnMessageAlone(FALSE, content, 1)
  \/ \E id \in 1..MaxMessages, ok \in BOOLEAN, code \in DetectAnswers :
       DetectReturns(id, ok, code)
  \/ \E id \in 1..MaxMessages, ok \in BOOLEAN, text \in LiveRenderings :
       FilterTranslateReturns(id, ok, text)
  \/ \E id \in 1..MaxMessages, ok \in BOOLEAN : NoticeSendReturns(id, ok)
  \/ \E id \in 1..MaxMessages, ok \in BOOLEAN : DiagnosticSendReturns(id, ok)
  \/ Forget
SpecBoth == InitBoth /\ [][NextBoth]_vars

(* SpecTruncate: on_message, one message at a time, over texts around the  *)
(* display length.                                                         *)
LongText(c, n) == [i \in 1..n |-> c]
LongContents ==
  {<<"B", "o", "n", "j", "o", "u", "r">>, LongText("a", DisplayLen), LongText("a", DisplayLen + 1)}
LongRenderings ==
  {<<"H", "e", "l", "l", "o">>, LongText("b", DisplayLen - 1), LongText("b", DisplayLen),
   LongText("b", DisplayLen + 1), LongText("b", DisplayLen + 2)}
NextTruncate ==
  \/ \E bot \in BOOLEAN, content \in LongContents, channel \in FilterChannels :
       OnMessageAlone(bot, content, channel)
  \/ \E id \in 1..MaxMessages, ok \in BOOLEAN, code \in DetectAnswers :
       DetectReturns(id, ok, code)
  \/ \E id \in 1..MaxMessages, ok \in BOOLEAN, text \in LongRenderings :
       FilterTranslateReturns(id, ok, text)
  \/ \E id \in 1..MaxMessages, ok \in BOOLEAN : NoticeSendReturns(id, ok)
  \/ \E id \in 1..MaxMessages, ok \in BOOLEAN : DiagnosticSendReturns(id, ok)
  \/ Forget
SpecTruncate == InitFilter /\ [][NextTruncate]_vars

\* ------------------------------------------------------------------ properties
CountOf(seq, Test(_)) == Cardinality({i \in 1..Len(seq) : Test(seq[i])})

\* the destinations of the call, in declaration order
DestLangs == [i \in 1..Len(startMap) |-> startMap[i].key]

\* a call is in flight or just over
InCall == pc # "idle"

\* the loop is over and the summary is being reported
AtSummary == pc = "reply_summary"

\* the text of a payload without the everyone-mention marker put in front
Body(content) ==
  IF mention_everyone /\ Len(content) >= Len(EveryoneMarker)
     /\ SubSeq(content, 1, Len(EveryoneMarker)) = EveryoneMarker
  THEN SubSeq(content, Len(EveryoneMarker) + 1, Len(content))
  ELSE content

HasTrigger(text) == Contains(Lower(text), FlagToken) \/ Contains(Lower(text), AtToken)

\* the payload the code builds for a destination from a translated text
PayloadOf(translated, lang) ==
  SendContent(mention_everyone, Compose(translated, clean_message, lang))

ScenarioMap == <<[key |-> "en", value |-> 1], [key |-> "pt", value |-> 2],
                 [key |-> "ko", value |-> 3]>>

\* the scenario of C1: channel 2 does not resolve, the provider fails for the
\* third destination, every send returns
Scenario ==
  /\ AtSummary /\ startMap = ScenarioMap
  /\ Len(resolved) = 3
  /\ resolved[1].found /\ ~resolved[2].found /\ resolved[3].found
  /\ translatorCalls = <<[text |-> clean_message, target |-> "ko", ok |-> FALSE]>>
  /\ \A j \in 1..Len(sends) : sends[j].ok
  /\ Len(sends) = 2

(* C1 as claimed: a failed translation for a destination means that        *)
(* nothing is sent to that destination, that it is recorded as failed and  *)
(* not counted; in the scenario sentCount = 1 and channel 3 gets nothing.  *)
C1_Original ==
  /\ \A i \in 1..Len(translatorCalls) :
       ~translatorCalls[i].ok =>
         /\ \A j \in 1..Len(sends) : sends[j].lang # translatorCalls[i].target
         /\ \A k \in 1..Len(outcomes) :
              outcomes[k].lang = translatorCalls[i].target => outcomes[k].status = "SendFailed"
  /\ Scenario => sent_count = 1 /\ \A j \in 1..Len(sends) : sends[j].chan # 3

(* C1 amended: when the provider fails, translate_text hands back the      *)
(* clean text and the fan-out goes on with it: the destination is sent the *)
(* payload whose body is the clean text (with the English reference line), *)
(* a send that returns counts in sent_count and the destination is not     *)
(* recorded as failed; in the scenario sent_count = 2 and channel 3        *)
(* receives the untranslated payload.                                      *)
C1_Amended ==
  /\ \A i \in 1..Len(translatorCalls) :
       LET c == translatorCalls[i] IN
       /\ \/ \E j \in 1..Len(sends) : sends[j].lang = c.target
          \/ pc = "send" /\ lang_code = c.target
       /\ \A j \in 1..Len(sends) :
            sends[j].lang = c.target =>
              /\ sends[j].content =
                   PayloadOf(IF c.ok THEN GoogleTranslate(clean_message, c.target)
                                     ELSE clean_message, c.target)
              /\ sends[j].ok =>
                   \E k \in 1..Len(outcomes) :
                     outcomes[k].lang = c.target /\ outcomes[k].status = "Sent"
  /\ AtSummary => sent_count = CountOf(sends, LAMBDA x : x.ok)
  /\ Scenario =>
       /\ sent_count = 2
       /\ sends[2].chan = 3 /\ sends[2].content = PayloadOf(clean_message, "ko")
       /\ Len(failed_channels) = 1 /\ failed_channels[1].why = "channel not found"

C1_Witness == Scenario /\ sent_count = 2 /\ sends[2].chan = 3

(* C2: no payload sent to a destination (the everyone-mention marker put   *)
(* in front aside) and no text handed to the Translator contains a trigger *)
(* token, in any letter casing.                                            *)
C2_NoTriggerLeak ==
  /\ \A j \in 1..Len(sends) : ~HasTrigger(Body(sends[j].content))
  /\ \A i \in 1..Len(translatorCalls) : ~HasTrigger(translatorCalls[i].text)

(* C3: the destinations a fan-out looks up are the entries of the map as   *)
(* it was when the call started, each once and in that order, and the call *)
(* reaches its summary: the outer handler is entered only when a reply to  *)
(* the requester raised.                                                   *)
C3_SnapshotStable ==
  /\ Len(resolved) <= Len(startMap)
  /\ \A i \in 1..Len(resolved) :
       i <= Len(startMap) =>
         resolved[i].lang = startMap[i].key /\ resolved[i].chan = startMap[i].value
  /\ AtSummary => Len(resolved) = Len(startMap)
  /\ pc = "reply_failed" => replies # <<>> /\ ~replies[Len(replies)].ok

(* C4: with no destination configured the call reports that condition to   *)
(* the requester first and looks up no channel, calls no Translator and    *)
(* sends nothing to a destination.                                         *)
C4_NoDestinationsFailFast ==
  (InCall /\ startMap = <<>>) =>
    /\ pc \in {"reply_nodest", "reply_failed", "done"}
    /\ resolved = <<>> /\ translatorCalls = <<>> /\ sends = <<>> /\ outcomes = <<>>
    /\ pc # "reply_nodest" => replies # <<>> /\ replies[1].kind = "nodest"
    /\ \A i \in 1..Len(replies) : replies[i].kind \in {"nodest", "failed"}

C4_Witness ==
  /\ pc = "done" /\ startMap = <<>> /\ result = "returned"
  /\ replies = <<[kind |-> "nodest", ok |-> TRUE]>>

\* the outer handler is entered only because a reply to the requester raised
OuterHandlerOnlyOnReply ==
  pc = "reply_failed" => replies # <<>> /\ ~replies[Len(replies)].ok

\* the entry failed_channels holds for a decided destination that was not sent
FailedEntry(o) ==
  [name |-> LangName(available_announcement_languages, o.lang),
   why |-> IF o.status = "ChannelNotFound" THEN "channel not found" ELSE "error"]

(* C5: a typing-indicator or send error is recorded as a failure of its    *)
(* destination only, is not counted as sent, and does not end the loop:    *)
(* the outer handler is not entered, every destination of the map is still *)
(* looked up, and each one found is dispatched to unless its own typing    *)
(* indicator failed.                                                       *)
C5_TransportErrorIsolated ==
  /\ \A j \in 1..Len(sends) :
       ~sends[j].ok =>
         \E k \in 1..Len(outcomes) :
           /\ outcomes[k].lang = sends[j].lang
           /\ outcomes[k].status = "SendFailed" /\ outcomes[k].detail = "send"
  /\ CountOf(failed_channels, LAMBDA f : f.why = "error")
       = CountOf(outcomes, LAMBDA o : o.detail \in {"typing", "send"})
  /\ sent_count = CountOf(sends, LAMBDA x : x.ok)
  /\ OuterHandlerOnlyOnReply
  /\ AtSummary =>
       /\ [i \in 1..Len(resolved) |-> resolved[i].lang] = DestLangs
       /\ \A i \in 1..Len(resolved) :
            resolved[i].found =>
              \/ \E j \in 1..Len(sends) : sends[j].lang = resolved[i].lang
              \/ \E k \in 1..Len(outcomes) :
                   outcomes[k].lang = resolved[i].lang /\ outcomes[k].detail = "typing"

C5_Witness ==
  \E k1, k2, k3 \in 1..Len(outcomes) :
    /\ k1 < k2 /\ k2 < k3
    /\ outcomes[k1].detail = "typing" /\ outcomes[k2].detail = "send"
    /\ outcomes[k3].status = "Sent"

(* C6: a destination whose channel id does not resolve is recorded as      *)
(* channel not found, causes no Translator call and no send, and the loop  *)
(* goes on to the remaining destinations.                                  *)
C6_ChannelNotFoundSkipped ==
  /\ \A i \in 1..Len(resolved) :
       ~resolved[i].found =>
         /\ \A c \in 1..Len(translatorCalls) : translatorCalls[c].target # resolved[i].lang
         /\ \A j \in 1..Len(sends) : sends[j].lang # resolved[i].lang
         /\ ~(pc \in {"typing", "translate", "send"} /\ lang_code = resolved[i].lang)
         /\ i <= Len(outcomes) /\ outcomes[i].lang = resolved[i].lang
         /\ outcomes[i].status = "ChannelNotFound"
  /\ SelectSeq(failed_channels, LAMBDA f : f.why = "channel not found")
       = LET r == SelectSeq(resolved, LAMBDA x : ~x.found)
         IN  [i \in 1..Len(r) |->
                [name |-> LangName(available_announcement_languages, r[i].lang),
                 why |-> "channel not found"]]
  /\ OuterHandlerOnlyOnReply
  /\ AtSummary => Len(resolved) = Len(startMap)

C6_Witness ==
  \E i, j \in 1..Len(resolved) :
    /\ i < j /\ ~resolved[i].found /\ resolved[j].found
    /\ \E k \in 1..Len(sends) : sends[k].lang = resolved[j].lang /\ sends[k].ok

\* the destinations found whose language is not the canonical one
FoundNonCanonical(r) == r.found /\ r.lang # "en"

TypingFailed(lang) ==
  \E k \in 1..Len(outcomes) : outcomes[k].lang = lang /\ outcomes[k].detail = "typing"

CanonicalUntranslated ==
  /\ \A c \in 1..Len(translatorCalls) : translatorCalls[c].target # "en"
  /\ \A j \in 1..Len(sends) :
       sends[j].lang = "en" =>
         sends[j].content = SendContent(mention_everyone, HeaderLine \o clean_message)

(* C7 as claimed: no Translator call for the canonical language, whose     *)
(* destination gets the clean text verbatim; over the fan-out there are as *)
(* many Translator calls as resolvable non-canonical destinations.         *)
C7_Original ==
  /\ CanonicalUntranslated
  /\ AtSummary => Len(translatorCalls) = CountOf(resolved, FoundNonCanonical)

(* C7 amended: as claimed, but the Translator calls are as many as the     *)
(* resolvable non-canonical destinations whose typing indicator started:   *)
(* a destination whose typing indicator raises is given up before the      *)
(* Translator is called.                                                   *)
C7_Amended ==
  /\ CanonicalUntranslated
  /\ AtSummary =>
       Len(translatorCalls)
         = CountOf(resolved, LAMBDA r : FoundNonCanonical(r) /\ ~TypingFailed(r.lang))

C7_Witness ==
  /\ AtSummary /\ Len(translatorCalls) = 1
  /\ \E j \in 1..Len(sends) : sends[j].lang = "en" /\ sends[j].ok
  /\ \E k \in 1..Len(outcomes) : outcomes[k].detail = "typing"

Statuses == {"Sent", "ChannelNotFound", "SendFailed"}

NoErrors ==
  /\ \A c \in 1..Len(translatorCalls) : translatorCalls[c].ok
  /\ \A k \in 1..Len(outcomes) : outcomes[k].status # "SendFailed"

(* C8: the fan-out decides one outcome per destination of the map, each    *)
(* with one status; sent_count is the number of sends that returned, the   *)
(* failed list holds the others, and without translation or send errors    *)
(* sent_count is the number of destinations whose channel resolved.        *)
C8_OneOutcomePerDestination ==
  /\ Len(outcomes) <= Len(startMap)
  /\ \A k \in 1..Len(outcomes) :
       /\ outcomes[k].lang = startMap[k].key /\ outcomes[k].chan = startMap[k].value
       /\ outcomes[k].status \in Statuses
  /\ sent_count = CountOf(sends, LAMBDA x : x.ok)
  /\ sent_count = CountOf(outcomes, LAMBDA o : o.status = "Sent")
  /\ Len(failed_channels) = CountOf(outcomes, LAMBDA o : o.status # "Sent")
  /\ AtSummary =>
       /\ Len(outcomes) = Len(startMap)
       /\ sent_count + Len(failed_channels) = Len(startMap)
       /\ NoErrors => sent_count = CountOf(resolved, LAMBDA r : r.found)

C8_Witness ==
  /\ AtSummary /\ Len(startMap) = 3
  /\ {outcomes[k].status : k \in 1..Len(outcomes)} = Statuses
  /\ sent_count = 1 /\ Len(failed_channels) = 2

(* C9: the outcomes are decided in the declaration order of the map, and   *)
(* the failed/skipped list of the summary names its destinations in that   *)
(* order.                                                                  *)
C9_OutcomeOrder ==
  /\ \A k \in 1..Len(outcomes) :
       k <= Len(startMap) /\ outcomes[k].lang = startMap[k].key
  /\ failed_channels
       = LET f == SelectSeq(outcomes, LAMBDA o : o.status # "Sent")
         IN  [i \in 1..Len(f) |-> FailedEntry(f[i])]

C9_Witness ==
  /\ AtSummary /\ Len(failed_channels) = 2 /\ sent_count = 1
  /\ failed_channels[1] # failed_channels[2]
  /\ outcomes[2].status = "Sent"

\* a destination is suspended on the typing indicator, the Translator or the send
InFlight == pc \in {"typing", "translate", "send"}

\* a destination of the map has not been taken up yet
MoreDestinations ==
  DictNext(announcement_language_channels[ctx_guild], it).kind = "item"

(* C10 as claimed: while a destination is suspended on the Translator or   *)
(* the transport, a destination not yet taken up can be taken up.          *)
C10_Original ==
  (InFlight /\ MoreDestinations) => ENABLED (\E found \in BOOLEAN : LoopNext(found))

(* C10 amended: the destinations are processed one at a time in the order  *)
(* of the map: while a destination is suspended on the typing indicator,   *)
(* the Translator or the send, no other destination is taken up, and every *)
(* destination before it has its outcome.                                  *)
C10_Sequential ==
  /\ InFlight =>
       /\ ~ENABLED (\E found \in BOOLEAN : LoopNext(found))
       /\ Len(resolved) = Len(outcomes) + 1
       /\ resolved[Len(resolved)].lang = lang_code
  /\ ~InFlight => Len(resolved) = Len(outcomes)
  /\ \A i \in 1..Len(resolved) : resolved[i].lang = startMap[i].key

C10_Witness ==
  /\ pc = "translate" /\ MoreDestinations
  /\ Len(outcomes) = 1 /\ outcomes[1].status = "Sent"

\* ------------------------------------------------------------------ on_message properties
Watched == {auto_translate_channels[k] : k \in DOMAIN auto_translate_channels}
Dispatched == {i \in 1..MaxMessages : inv[i].pc # "none"}
NoticesOf(f) == {k \in DOMAIN f.sends : f.sends[k].payload.kind = "notice"}
DiagnosticsOf(f) == {k \in DOMAIN f.sends : f.sends[k].payload.kind = "diagnostic"}
NoticeFailed(f) == \E k \in NoticesOf(f) : ~f.sends[k].ok
\* the translator has answered with a text
Translated(f) == f.translateCalls # <<>> /\ ~f.translateFailed
\* the invocation went on to send a notice
Publishes(f) == f.pc = "notice" \/ NoticesOf(f) # {}

\* C11: a message whose author is a bot, whose text is empty or whitespace
\* after trimming, or whose channel is not watched ends the invocation at
\* once: no detector call, no translator call, no send to any channel.
C11_GatedOutNoEffects ==
  \A i \in Dispatched :
    LET f == inv[i]
    IN  (f.bot \/ Strip(f.content) = <<>> \/ f.channel \notin Watched)
          => /\ f.pc = "done" /\ ~f.raised
             /\ f.detectCalls = <<>> /\ f.translateCalls = <<>> /\ f.sends = <<>>
             /\ \A k \in DOMAIN channelLog : channelLog[k].id # i

C11_Witness ==
  \E i \in Dispatched :
    /\ ~inv[i].bot /\ Strip(inv[i].content) # <<>>
    /\ ~StartsWith(inv[i].content, CommandPrefix)
    /\ inv[i].channel \notin Watched /\ Watched # {}
    /\ inv[i].pc = "done"

\* the cleaned text of the claim: lowercased and trimmed
Normalized(s) == Strip(Lower(s))

\* the maximal runs of characters of W in s, as index pairs
RunsOf(s, W) ==
  {r \in (1..Len(s)) \X (1..Len(s)) :
     /\ r[1] <= r[2]
     /\ \A k \in r[1]..r[2] : s[k] \in W
     /\ r[1] = 1 \/ s[r[1] - 1] \notin W
     /\ r[2] = Len(s) \/ s[r[2] + 1] \notin W}

\* the token sequence of s over the characters W
TokensIn(s, W) ==
  LET runs == RunsOf(s, W)
      nth(k) == CHOOSE r \in runs : Cardinality({q \in runs : q[1] < r[1]}) = k - 1
  IN  [k \in 1..Cardinality(runs) |-> SubSeq(s, nth(k)[1], nth(k)[2])]

AlphaNumeric == WordChars \ {"_"}

\* C12 as stated: a notice is published exactly when the normalized texts
\* differ and their sequences of maximal alphanumeric runs differ.
C12_Original ==
  \A i \in Dispatched :
    LET f == inv[i]
        o == Normalized(f.content)
        t == Normalized(f.translated)
    IN  Translated(f) =>
          (Publishes(f) <=> (o # t /\ TokensIn(o, AlphaNumeric) # TokensIn(t, AlphaNumeric)))

\* C12 amended: a notice is published exactly when the normalized texts
\* differ, the normalized translation is not empty, and their sequences of
\* maximal runs of word characters (letters, digits and the underscore)
\* differ; case, surrounding whitespace and punctuation alone never publish.
C12_Amended ==
  \A i \in Dispatched :
    LET f == inv[i]
        o == Normalized(f.content)
        t == Normalized(f.translated)
    IN  Translated(f) =>
          (Publishes(f) <=>
             (o # t /\ t # <<>> /\ TokensIn(o, WordChars) # TokensIn(t, WordChars)))

C12_Witness ==
  \E i \in Dispatched :
    /\ inv[i].content = <<"H", "e", "l", "l", "o", " ", "W", "o", "r", "l", "d">>
    /\ inv[i].translated = <<"h", "e", "l", "l", "o", " ", " ", " ", "w", "o", "r", "l", "d">>
    /\ Translated(inv[i]) /\ inv[i].pc = "done" /\ inv[i].sends = <<>>

\* C13 as stated: whenever the detector, the translator or the notice send
\* raised, nothing leaves on_message and a diagnostic is sent to the channel
\* the message arrived on.
C13_Original ==
  \A i \in Dispatched :
    LET f == inv[i]
    IN  (f.pc = "done" /\ (f.detectFailed \/ f.translateFailed \/ NoticeFailed(f)))
          => /\ ~f.raised
             /\ \E k \in DiagnosticsOf(f) : f.sends[k].chan = f.channel

\* C13 amended: nothing ever leaves on_message; when the translator or the
\* notice send raised, exactly one diagnostic is sent, last, to the channel
\* the message arrived on, and its own failure is swallowed; a detector
\* error alone sends no diagnostic; an invocation that is over has no
\* further effect and the watched channels are as they were.
C13_Amended ==
  /\ [](\A i \in Dispatched :
          LET f == inv[i]
          IN  /\ ~f.raised
              /\ f.pc = "done" =>
                   /\ Cardinality(DiagnosticsOf(f)) =
                        IF f.translateFailed \/ NoticeFailed(f) THEN 1 ELSE 0
                   /\ \A k \in DiagnosticsOf(f) :
                        k = Len(f.sends) /\ f.sends[k].chan = f.channel)
  /\ [][/\ auto_translate_channels' = auto_translate_channels
        /\ \A i \in 1..MaxMessages :
             inv[i].pc = "done" => inv'[i] \in {inv[i], NoFrame}]_vars

C13_Witness ==
  \E i \in Dispatched :
    /\ inv[i].pc = "done" /\ inv[i].translateFailed /\ ~inv[i].raised
    /\ \E k \in DiagnosticsOf(inv[i]) : ~inv[i].sends[k].ok

\* C14: when the detector answers "en" the invocation stops: the translator
\* is not called and nothing is sent.
C14_EnglishStops ==
  \A i \in Dispatched :
    LET f == inv[i]
    IN  (f.detectCalls # <<>> /\ f.detected_lang = "en")
          => f.pc = "done" /\ f.translateCalls = <<>> /\ f.sends = <<>> /\ ~f.raised

C14_Witness ==
  \E i \in Dispatched :
    /\ inv[i].detectCalls = <<inv[i].content>> /\ ~inv[i].detectFailed
    /\ inv[i].detected_lang = "en" /\ inv[i].pc = "done"

\* C15: a detector failure does not end the invocation: the translator is
\* still called with the message text, the equivalence gate still decides
\* whether a notice is sent, and a notice sent names the source language
\* "Unknown".
C15_DetectorFailureDegrades ==
  \A i \in Dispatched :
    LET f == inv[i]
    IN  f.detectFailed =>
          /\ f.pc = "translate" \/ f.translateCalls = <<f.content>>
          /\ (Translated(f) /\ f.pc = "done") =>
               (NoticesOf(f) # {} <=>
                  /\ Normalized(f.content) # Normalized(f.translated)
                  /\ Normalized(f.translated) # <<>>
                  /\ TokensIn(Normalized(f.content), WordChars)
                       # TokensIn(Normalized(f.translated), WordChars))
          /\ \A k \in NoticesOf(f) : f.sends[k].payload.lang = "Unknown"

C15_Witness ==
  \E i \in Dispatched :
    /\ inv[i].detectFailed /\ inv[i].pc = "done"
    /\ \E k \in NoticesOf(inv[i]) :
         inv[i].sends[k].ok /\ inv[i].sends[k].payload.lang = "Unknown"

InvocationInFlight(i) == inv[i].pc \notin {"none", "done"}

\* C16: two invocations for the same channel are never in flight together,
\* and the notices of a channel are sent in the order their messages
\* arrived.
C16_SerialPerChannel ==
  /\ \A i, j \in Dispatched :
       (i < j /\ inv[i].channel = inv[j].channel)
         => ~(InvocationInFlight(i) /\ InvocationInFlight(j))
  /\ \A a, b \in DOMAIN channelLog :
       (a < b /\ channelLog[a].chan = channelLog[b].chan
          /\ channelLog[a].kind = "notice" /\ channelLog[b].kind = "notice")
         => channelLog[a].id < channelLog[b].id

\* ------------------------------------------------------------------ fan-out properties, continued
\* the request and the destinations are those of the previous run
SameRequest ==
  /\ prevRun # NoRun
  /\ ctx_guild = prevRun.guild /\ message = prevRun.message
  /\ startMap = prevRun.startMap

\* every collaborator call of this run that the previous run made too got
\* the answer it got then
SameBehaviour ==
  /\ \A k \in DOMAIN resolved : \A j \in DOMAIN prevRun.resolved :
       resolved[k].chan = prevRun.resolved[j].chan
         => resolved[k].found = prevRun.resolved[j].found
  /\ \A k \in DOMAIN translatorCalls : \A j \in DOMAIN prevRun.translatorCalls :
       (translatorCalls[k].text = prevRun.translatorCalls[j].text
          /\ translatorCalls[k].target = prevRun.translatorCalls[j].target)
         => translatorCalls[k].ok = prevRun.translatorCalls[j].ok
  /\ \A k \in DOMAIN sends : \A j \in DOMAIN prevRun.sends :
       (sends[k].chan = prevRun.sends[j].chan /\ sends[k].content = prevRun.sends[j].content)
         => sends[k].ok = prevRun.sends[j].ok
  /\ \A k \in DOMAIN outcomes : \A j \in DOMAIN prevRun.outcomes :
       (outcomes[k].chan = prevRun.outcomes[j].chan
          /\ "typing" \in {outcomes[k].detail, prevRun.outcomes[j].detail}
          /\ {outcomes[k].detail, prevRun.outcomes[j].detail} \subseteq {"typing", "translate", "send", ""})
         => outcomes[k].detail = prevRun.outcomes[j].detail
  /\ \A k \in DOMAIN replies : \A j \in DOMAIN prevRun.replies :
       replies[k].kind = prevRun.replies[j].kind => replies[k].ok = prevRun.replies[j].ok

\* C17: when the command is given again with the same request, the same
\* destinations and collaborators answering as before, the call ends with
\* the summary of the previous run: the same sent count, the same sequence
\* of outcomes, the same failed list and the same replies.
C17_RerunSameSummary ==
  (pc = "done" /\ SameRequest /\ SameBehaviour)
    => /\ sent_count = prevRun.sent_count
       /\ outcomes = prevRun.outcomes
       /\ failed_channels = prevRun.failed_channels
       /\ replies = prevRun.replies
       /\ result = prevRun.result

C17_Witness ==
  /\ pc = "done" /\ SameRequest /\ SameBehaviour
  /\ Len(outcomes) = 3 /\ sent_count = 1
  /\ \E k \in DOMAIN outcomes : outcomes[k].status = "ChannelNotFound"
  /\ \E k \in DOMAIN outcomes : outcomes[k].status = "SendFailed"

\* C18: translate_text never raises to announce, and when the provider
\* raised it returns the text it was given: the call goes on to the send
\* with translated_message equal to the clean message.
C18_TranslateFailsClosed ==
  /\ \A k \in DOMAIN outcomes : outcomes[k].detail # "translate"
  /\ \A k \in DOMAIN translatorCalls :
       ~translatorCalls[k].ok =>
         \/ /\ k = Len(translatorCalls) /\ pc = "send"
            /\ lang_code = translatorCalls[k].target
            /\ translated_message = translatorCalls[k].text
         \/ \E j \in DOMAIN sends : sends[j].lang = translatorCalls[k].target

C18_Witness ==
  /\ pc = "send" /\ translatorCalls # <<>>
  /\ ~translatorCalls[Len(translatorCalls)].ok
  /\ translatorCalls[Len(translatorCalls)].text # <<>>
  /\ translated_message = translatorCalls[Len(translatorCalls)].text

IsPrefix(a, b) == Len(a) <= Len(b) /\ SubSeq(b, 1, Len(a)) = a

\* C19: within a call no destination is resolved twice, translated twice
\* or sent to twice, a destination decided is not taken up again, and what
\* is recorded is only added to: later steps leave the recorded outcomes
\* and sends as they are and never lower the sent count.
C19_AtMostOnce ==
  /\ [](/\ \A k, j \in DOMAIN resolved :
             (resolved[k].lang = resolved[j].lang /\ resolved[k].chan = resolved[j].chan)
               => k = j
        /\ \A k, j \in DOMAIN translatorCalls :
             translatorCalls[k].target = translatorCalls[j].target => k = j
        /\ \A k, j \in DOMAIN sends :
             (sends[k].lang = sends[j].lang /\ sends[k].chan = sends[j].chan) => k = j
        /\ \A k \in DOMAIN outcomes :
             ~(pc \in {"typing", "translate", "send"} /\ lang_code = outcomes[k].lang))
  /\ [][(pc # "idle" /\ pc' # "idle")
          => /\ IsPrefix(outcomes, outcomes') /\ IsPrefix(sends, sends')
             /\ IsPrefix(resolved, resolved')
             /\ sent_count' >= sent_count]_vars

C19_Witness ==
  /\ pc = "reply_summary" /\ Len(outcomes) = 3 /\ sent_count = 1
  /\ outcomes[1].status = "Sent" /\ outcomes[2].status = "SendFailed"
  /\ outcomes[3].status = "SendFailed"

SummariesSent == CountOf(replies, LAMBDA r : r.kind = "summary")
ProgressDelivered == \E k \in DOMAIN replies : replies[k].kind = "progress" /\ replies[k].ok

\* C20 as stated: a call on a non-empty map that has ended has reported
\* exactly one summary.
C20_Original ==
  (pc = "done" /\ startMap # <<>>) => SummariesSent = 1

\* C20 amended: a call on a non-empty map ends whenever each of its awaits
\* returns or raises; it sends at most one summary, and exactly one when its
\* progress reply was delivered, however many destinations failed; when the
\* progress reply raised it ends with the failure notice and no summary.
C20_Amended ==
  /\ [](startMap # <<>> =>
          /\ SummariesSent <= 1
          /\ pc = "done" =>
               /\ SummariesSent = (IF ProgressDelivered THEN 1 ELSE 0)
               /\ ~ProgressDelivered =>
                    \E k \in DOMAIN replies : replies[k].kind = "failed")
  /\ (pc = "reply_progress") ~> (pc = "done")

C20_Witness ==
  /\ pc = "done" /\ Len(startMap) = 3 /\ SummariesSent = 1
  /\ sent_count = 0 /\ Len(outcomes) = 3

\* ------------------------------------------------------------------ on_message properties, continued
Delivered(f) == {k \in DOMAIN f.sends : f.sends[k].ok}

C24_SameChannel ==
  /\ \A i \in Dispatched :
       \A k \in DOMAIN inv[i].sends : inv[i].sends[k].chan = inv[i].channel
  /\ \A k \in DOMAIN channelLog : channelLog[k].chan = inv[channelLog[k].id].channel

C24_Witness ==
  \E i \in Dispatched :
    /\ inv[i].channel = 1 /\ auto_translate_channels = <<2, 1>>
    /\ NoticesOf(inv[i]) # {} /\ DiagnosticsOf(inv[i]) # {}

\* C25: a message of a bot, the pipeline's own notices and diagnostics
\* included, causes no detector call, no translator call and no send; every
\* send belongs to a message of a user, and a message of a user has at most
\* one send delivered.
C25_NoFeedback ==
  /\ \A i \in Dispatched :
       inv[i].bot => /\ inv[i].pc = "done"
                     /\ inv[i].detectCalls = <<>> /\ inv[i].translateCalls = <<>>
                     /\ inv[i].sends = <<>>
  /\ \A k \in DOMAIN channelLog : ~inv[channelLog[k].id].bot
  /\ \A i \in Dispatched : Cardinality(Delivered(inv[i])) <= 1

C25_Witness ==
  \E i \in Dispatched :
    /\ inv[i].echoOf > 0 /\ channelLog[inv[i].echoOf].kind = "diagnostic"
    /\ inv[i].channel \in Watched /\ inv[i].content # <<>>
    /\ inv[i].pc = "done"

\* C26: an invocation calls the detector at most once and the translator at
\* most once, sends at most one notice and at most one diagnostic, and at
\* most one of its sends is delivered.
C26_AtMostOnePerInvocation ==
  \A i \in Dispatched :
    LET f == inv[i]
    IN  /\ Len(f.detectCalls) <= 1 /\ Len(f.translateCalls) <= 1
        /\ Cardinality(NoticesOf(f)) <= 1 /\ Cardinality(DiagnosticsOf(f)) <= 1
        /\ Cardinality(Delivered(f)) <= 1

C26_Witness ==
  \E i \in Dispatched :
    /\ inv[i].pc = "done" /\ Len(inv[i].sends) = 2
    /\ ~inv[i].sends[1].ok /\ inv[i].sends[2].ok

\* what a field shows of a text: the text when it is at most DisplayLen
\* long, else its first DisplayLen characters and the ellipsis marker
ShownAs(field, text) ==
  IF Len(text) <= DisplayLen THEN field = text
  ELSE /\ Len(field) = DisplayLen + 1
       /\ \A k \in 1..DisplayLen : field[k] = text[k]
       /\ field[DisplayLen + 1] = "..."

\* C27: in every notice the original field shows the message text and the
\* translation field shows the translated text, each by the same rule:
\* whole up to 500 characters, else the first 500 and an ellipsis marker.
C27_Truncation ==
  \A i \in Dispatched :
    \A k \in NoticesOf(inv[i]) :
      /\ ShownAs(inv[i].sends[k].payload.original, inv[i].content)
      /\ ShownAs(inv[i].sends[k].payload.translation, inv[i].translated)

C27_Witness ==
  \E i \in Dispatched :
    \E k \in NoticesOf(inv[i]) :
      /\ Len(inv[i].content) = DisplayLen + 1 /\ Len(inv[i].translated) = DisplayLen
      /\ Len(inv[i].sends[k].payload.original) = DisplayLen + 1
      /\ inv[i].sends[k].payload.translation = inv[i].translated

\* C30: a message whose text starts with the command prefix causes no
\* detector call, no translator call and no send, whatever its channel.
C30_CommandsNotTranslated ==
  \A i \in Dispatched :
    StartsWith(inv[i].content, CommandPrefix)
      => /\ inv[i].pc = "done" /\ ~inv[i].raised
         /\ inv[i].detectCalls = <<>> /\ inv[i].translateCalls = <<>>
         /\ inv[i].sends = <<>>
         /\ \A k \in DOMAIN channelLog : channelLog[k].id # i

C30_Witness ==
  \E i \in Dispatched :
    /\ inv[i].content = <<"!", "h", "i">> /\ ~inv[i].bot
    /\ inv[i].channel \in Watched /\ inv[i].pc = "done"

\* ------------------------------------------------------------------ payload and configuration properties
EndsWith(s, t) == Len(s) >= Len(t) /\ SubSeq(s, Len(s) - Len(t) + 1, Len(s)) = t

\* C21: a payload sent carries the reference line, the label followed by
\* the clean text, exactly when its destination's language is not "en";
\* the payload of an "en" destination is the header and the clean text,
\* once.
C21_ReferenceLine ==
  \A j \in DOMAIN sends :
    LET body == Body(sends[j].content)
    IN  /\ Contains(body, OriginalLabel) <=> sends[j].lang # "en"
        /\ sends[j].lang # "en" => EndsWith(body, OriginalLabel \o clean_message)
        /\ sends[j].lang = "en" => body = HeaderLine \o clean_message

C21_Witness ==
  /\ \E j \in DOMAIN sends : sends[j].lang = "en" /\ sends[j].ok
  /\ \E j \in DOMAIN sends : sends[j].lang # "en" /\ sends[j].ok

\* C22: within a call mention_everyone is what the request text says (a
\* trigger token in it, in any casing) and it and the clean text stay as
\* they were set before the first destination; a payload starts with the
\* everyone marker exactly when mention_everyone is set; every translator
\* call and every payload carries the one clean text.
C22_BroadcastDecidedOnce ==
  /\ []((pc \notin {"idle", "reply_nodest"} /\ ~(pc \in {"reply_failed", "done"} /\ startMap = <<>>))
          => /\ mention_everyone = HasTrigger(message)
             /\ \A j \in DOMAIN sends :
                  /\ StartsWith(sends[j].content, EveryoneMarker) <=> mention_everyone
                  /\ IF sends[j].lang = "en"
                     THEN Body(sends[j].content) = HeaderLine \o clean_message
                     ELSE EndsWith(Body(sends[j].content), OriginalLabel \o clean_message)
             /\ \A j \in DOMAIN translatorCalls : translatorCalls[j].text = clean_message)
  /\ [][(pc # "idle" /\ pc' # "idle")
          => /\ mention_everyone' = mention_everyone
             /\ clean_message' = clean_message]_vars

C22_Witness ==
  /\ mention_everyone /\ Len(sends) >= 2
  /\ \A j \in DOMAIN sends : StartsWith(sends[j].content, EveryoneMarker)
  /\ \E j \in DOMAIN sends : sends[j].lang # "en"

\* C28: no step of an announce call and no step of an on_message
\* invocation changes the channel maps, the language table or the watched
\* channels.
C28_ConfigurationUntouched ==
  [][/\ announcement_language_channels' = announcement_language_channels
     /\ available_announcement_languages' = available_announcement_languages
     /\ auto_translate_channels' = auto_translate_channels]_vars

C28_Witness ==
  /\ pc = "done" /\ Len(outcomes) = 3 /\ sent_count = 0
  /\ \E k \in DOMAIN outcomes : outcomes[k].status = "ChannelNotFound"
  /\ \E i \in Dispatched : inv[i].pc = "done" /\ inv[i].translateFailed

\* C29: every language code mapped to a channel in any guild is a key of
\* the language table.
C29_MappedCodesAvailable ==
  \A g \in Guilds :
    \A k \in DOMAIN announcement_language_channels[g] :
      announcement_language_channels[g][k] # Dummy
        => announcement_language_channels[g][k].key \in DOMAIN available_announcement_languages

C29_Witness ==
  /\ adminCount = 3
  /\ "ko" \notin DOMAIN available_announcement_languages
  /\ \A g \in Guilds : announcement_language_channels[g] = <<Dummy>>

\* ------------------------------------------------------------------ watch list properties
\* the channels toggled an odd number of times
OddToggled ==
  {c \in ToggleChannels :
     Cardinality({k \in DOMAIN toggleCalls : toggleCalls[k].channel = c}) % 2 = 1}

\* a step in which an auto_translate command arrives
ToggleArrives == Len(toggleCalls') = Len(toggleCalls) + 1

\* C32: from an empty watch list, the list never holds a channel twice and
\* holds exactly the channels toggled an odd number of times; the step of
\* a toggle flips its target's membership and no other channel's.
C32_TogglesFlipOneChannel ==
  /\ [](/\ \A i, j \in DOMAIN auto_translate_channels :
             i # j => auto_translate_channels[i] # auto_translate_channels[j]
        /\ {c \in ToggleChannels : InList(auto_translate_channels, c)} = OddToggled)
  /\ [][ToggleArrives =>
          LET target == toggleCalls'[Len(toggleCalls')].channel
          IN  \A c \in ToggleChannels :
                (InList(auto_translate_channels', c) = InList(auto_translate_channels, c))
                  <=> c # target]_vars

C32_Witness ==
  /\ Len(toggleCalls) = 3
  /\ toggleCalls[1].channel = 1 /\ toggleCalls[2].channel = 2 /\ toggleCalls[3].channel = 1
  /\ auto_translate_channels = <<2>>

\* C31: a notice or diagnostic goes to the channel of an invocation that
\* passed the watched-channel check, a check made on the watch list of the
\* moment the message is dispatched; an auto_translate command changes no
\* invocation, and an invocation that passed the check and got a usable
\* translation has sent its notice whatever the watch list became.
C31_GateCheckedOnce ==
  /\ [](/\ \A k \in DOMAIN channelLog :
             /\ inv[channelLog[k].id].gate = "in"
             /\ channelLog[k].chan = inv[channelLog[k].id].channel
        /\ \A i \in 1..arrived :
             (/\ inv[i].pc = "done" /\ inv[i].gate = "in"
              /\ ~AlreadyEnglish(inv[i].detected_lang)
              /\ ~inv[i].translateFailed
              /\ SignificantlyDifferent(inv[i].content, inv[i].translated))
               => \E k \in DOMAIN channelLog :
                    channelLog[k].id = i /\ channelLog[k].kind = "notice")
  /\ [][/\ arrived' = arrived + 1
            => (inv'[arrived'].gate = "in"
                  => InList(auto_translate_channels, inv'[arrived'].channel))
        /\ ToggleArrives => inv' = inv /\ channelLog' = channelLog]_vars

C31_Witness ==
  \E t \in DOMAIN toggleCalls, k \in DOMAIN channelLog :
    /\ ~toggleCalls[t].enabled
    /\ channelLog[k].id \in toggleCalls[t].inFlight
    /\ channelLog[k].kind = "notice" /\ channelLog[k].ok
    /\ channelLog[k].chan = toggleCalls[t].channel
    /\ ~InList(auto_translate_channels, channelLog[k].chan)

\* ------------------------------------------------------------------ admin command properties
\* the codes a channel map can hold or a command can name, lowered
AllCodes == {LowerCode(c) : c \in AdminCodes}

\* the entries of a guild's map under code: one per live key
EntriesOf(g, code) ==
  {k \in DOMAIN announcement_language_channels[g] :
     announcement_language_channels[g][k] # Dummy
       /\ announcement_language_channels[g][k].key = code}

\* the latest admin command composed the reply of this kind
Replied(cmd, kind) ==
  adminReplies' # <<>> /\ adminReplies'[1].cmd = cmd /\ adminReplies'[1].kind = kind

\* C33: a guild's map holds a language code at most once; an accepted
\* set_lang_channel leaves the code on the channel given, a second one for
\* the same code replacing the first, an accepted remove_lang_channel
\* leaves the code without channel, and either changes no other code of
\* the guild and no other guild's map.
C33_OneEntryPerLanguage ==
  /\ [](\A g \in Guilds, code \in AllCodes : Cardinality(EntriesOf(g, code)) <= 1)
  /\ [][\A g \in Guilds, c \in AdminCodes :
          /\ \A ch \in AdminChannels :
               (Replied("set_lang_channel", "ok") /\ set_language_channel(g, c, ch))
                 => /\ DictGet(announcement_language_channels'[g], LowerCode(c)) = ch
                    /\ \A other \in AllCodes \ {LowerCode(c)} :
                         DictGet(announcement_language_channels'[g], other)
                           = DictGet(announcement_language_channels[g], other)
                    /\ \A h \in Guilds \ {g} :
                         announcement_language_channels'[h] = announcement_language_channels[h]
          /\ (Replied("remove_lang_channel", "ok") /\ remove_language_channel(g, c))
               => /\ DictGet(announcement_language_channels'[g], LowerCode(c)) = NoChannel
                  /\ \A other \in AllCodes \ {LowerCode(c)} :
                       DictGet(announcement_language_channels'[g], other)
                         = DictGet(announcement_language_channels[g], other)
                  /\ \A h \in Guilds \ {g} :
                       announcement_language_channels'[h] = announcement_language_channels[h]]_vars

C33_Witness ==
  /\ adminCount = 3
  /\ announcement_language_channels["g1"] = <<Dummy, [key |-> "pt", value |-> 2]>>
  /\ announcement_language_channels["g2"] = <<>>
  /\ adminReplies = <<[cmd |-> "remove_lang_channel", kind |-> "ok", ok |-> TRUE]>>

\* C34: set_lang_channel with a code that is not in the language table,
\* remove_lang_channel for a language without channel in the guild and
\* add_lang for a code the table has each compose an error reply and leave
\* the channel maps and the language table as they were; so does every
\* command that composes an error reply.
C34_RejectedCommandsChangeNothing ==
  [][/\ \A g \in Guilds, c \in AdminCodes :
          /\ \A ch \in AdminChannels :
               (/\ LowerCode(c) \notin DOMAIN available_announcement_languages
                /\ set_language_channel(g, c, ch))
                 => Replied("set_lang_channel", "error") /\ UNCHANGED cfgVars
          /\ (/\ DictGet(announcement_language_channels[g], LowerCode(c)) = NoChannel
              /\ remove_language_channel(g, c))
               => Replied("remove_lang_channel", "error") /\ UNCHANGED cfgVars
          /\ (/\ LowerCode(c) \in DOMAIN available_announcement_languages
              /\ add_language(c))
               => Replied("add_lang", "error") /\ UNCHANGED cfgVars
     /\ (adminCount' # adminCount /\ adminReplies'[1].kind = "error")
          => UNCHANGED cfgVars]_vars

C34_Witness ==
  /\ adminCount = 3
  /\ adminReplies = <<[cmd |-> "set_lang_channel", kind |-> "error", ok |-> TRUE]>>
  /\ announcement_language_channels["g1"] = <<[key |-> "en", value |-> 1]>>
  /\ "xx" \notin DOMAIN available_announcement_languages
  /\ "ko" \notin DOMAIN available_announcement_languages

\* ------------------------------------------------------------------ announce_everyone properties
\* the text the requester gave to announce_everyone
EveryoneArgument == SubSeq(message, 1, Len(message) - Len(EveryoneSuffix))

\* a call of announce_everyone has read its text and has destinations
EveryoneCallRunning ==
  /\ pc \notin {"idle", "reply_nodest"}
  /\ ~(pc \in {"reply_failed", "done"} /\ startMap = <<>>)

\* what announce(message) would translate and send, and the marker on
\* every payload
EveryoneAsAnnounceForced ==
  EveryoneCallRunning =>
    /\ mention_everyone
    /\ clean_message = Strip(StripTrigger(EveryoneArgument).clean_message)
    /\ \A j \in DOMAIN sends :
         /\ StartsWith(sends[j].content, EveryoneMarker)
         /\ \E d \in DOMAIN startMap :
              startMap[d].key = sends[j].lang /\ startMap[d].value = sends[j].chan
    /\ \A i \in DOMAIN translatorCalls : translatorCalls[i].text = clean_message

\* C35: a call of announce_everyone runs as announce on the text given
\* with the mention forced: every payload starts with the everyone marker,
\* and the text handed to the Translator and put in the payloads is the
\* text given without trigger tokens, in any casing.
C35_EveryoneIsAnnounceForced ==
  /\ EveryoneAsAnnounceForced
  /\ EveryoneCallRunning =>
       /\ ~HasTrigger(clean_message)
       /\ \A j \in DOMAIN sends : ~HasTrigger(Body(sends[j].content))
       /\ \A i \in DOMAIN translatorCalls : ~HasTrigger(translatorCalls[i].text)

\* ------------------------------------------------------------------ the two cogs
\* every collaborator call of the embed cog's run that the plain-text run
\* made for the same destination got the answer it got then
SameBehaviourByDestination ==
  /\ \A k \in DOMAIN resolved : \A j \in DOMAIN prevRun.resolved :
       resolved[k].chan = prevRun.resolved[j].chan
         => resolved[k].found = prevRun.resolved[j].found
  /\ \A k \in DOMAIN translatorCalls : \A j \in DOMAIN prevRun.translatorCalls :
       (translatorCalls[k].text = prevRun.translatorCalls[j].text
          /\ translatorCalls[k].target = prevRun.translatorCalls[j].target)
         => translatorCalls[k].ok = prevRun.translatorCalls[j].ok
  /\ \A k \in DOMAIN sends : \A j \in DOMAIN prevRun.sends :
       sends[k].chan = prevRun.sends[j].chan => sends[k].ok = prevRun.sends[j].ok
  /\ \A k \in DOMAIN outcomes : \A j \in DOMAIN prevRun.outcomes :
       (outcomes[k].chan = prevRun.outcomes[j].chan
          /\ "typing" \in {outcomes[k].detail, prevRun.outcomes[j].detail}
          /\ {outcomes[k].detail, prevRun.outcomes[j].detail} \subseteq {"typing", "translate", "send", ""})
         => outcomes[k].detail = prevRun.outcomes[j].detail
  /\ \A k \in DOMAIN replies : \A j \in DOMAIN prevRun.replies :
       replies[k].kind = prevRun.replies[j].kind => replies[k].ok = prevRun.replies[j].ok

\* the destinations and outcomes of the sends of a run, without the payloads
SendTrace(log) == [j \in DOMAIN log |-> [lang |-> log[j].lang, chan |-> log[j].chan, ok |-> log[j].ok]]

====
